---------------------------- MODULE Spec2Model ----------------------------
(***************************************************************************)
(* Assistant identity resolution and call dispatch of dialer-fusion:       *)
(*   - webhookService.combineAssistants / mapVapiAssistantToLocalFormat    *)
(*   - webhookService.triggerCallWebhook (resolution cascade and POST)     *)
(*   - ActiveCampaign.handleStopCampaign and CampaignControls'              *)
(*     handleStopCampaign, handlePauseCampaign and handleStartCampaign     *)
(*   - webhookService.getAllAssistants, getAssistantsFromVapiApi,          *)
(*     getVapiAssistantById, cacheAssistants                               *)
(*   - webhookService.createAssistant / deleteAssistant and the handlers   *)
(*     of AITraining that call them (select, create, delete, useEffect)    *)
(***************************************************************************)
EXTENDS Integers, Sequences, FiniteSets, TLC

(***************************************************************************)
(* Bounds of the model.                                                    *)
(***************************************************************************)
MaxLocal == 2
MaxRemote == 2
MaxCatalog == 2

(***************************************************************************)
(* Values.  The empty string stands for an absent / falsy id.              *)
(***************************************************************************)
NoId == ""
RemoteIds == {"v1", "v2", "v3"}
ValidStatuses == {"ready", "pending", "failed"}
RemoteStatuses == {"ready", "pending", "failed", "weird"}
LocalStatuses == {"ready", "pending", "weird"}

(***************************************************************************)
(* PART 1: the catalog reconciler (pure functions)                         *)
(***************************************************************************)

\* A row of the local store as getLocalAssistants returns it.  The primary
\* key id of row i is "l<i>"; assistant_id may be absent (NoId).
LocalIdOf(i) == <<"l1", "l2", "l3", "l4">>[i]
LocalShapes == [assistant_id : {NoId, "v1", "v2"}, status : LocalStatuses]
LocalRow(i, s) ==
  [id |-> LocalIdOf(i), name |-> "L", assistant_id |-> s.assistant_id,
   user_id |-> "u1", status |-> s.status]

\* A record as the provider's GET /assistant returns it.
RemoteRecords == [id : RemoteIds, name : {"R"}, status : RemoteStatuses]

UpTo(S, n) == UNION {[1..k -> S] : k \in 0..n}

\* The provider's ids are primary keys: no two records of one listing share an id.
DistinctIds(R) == \A i, j \in DOMAIN R : R[i].id = R[j].id => i = j

\* The local store keeps assistant_id unique when present (upsert onConflict).
DistinctRemoteIds(L) ==
  \A i, j \in DOMAIN L :
    (L[i].assistant_id # NoId /\ L[i].assistant_id = L[j].assistant_id) => i = j

LocalLists ==
  {L \in {[i \in DOMAIN sh |-> LocalRow(i, sh[i])] : sh \in UpTo(LocalShapes, MaxLocal)} :
     DistinctRemoteIds(L)}
RemoteLists == {R \in UpTo(RemoteRecords, MaxRemote) : DistinctIds(R)}

mapVapiAssistantToLocalFormat(assistant) ==
  [id |-> assistant.id, name |-> assistant.name, assistant_id |-> assistant.id,
   user_id |-> "",
   status |-> IF assistant.status \in ValidStatuses THEN assistant.status ELSE "ready"]

\* Array.prototype.findIndex: the first index whose assistant_id equals rid, 0 if none.
findIndex(combined, rid) ==
  IF \E i \in DOMAIN combined : combined[i].assistant_id = rid
  THEN CHOOSE i \in DOMAIN combined :
         /\ combined[i].assistant_id = rid
         /\ \A j \in 1..(i - 1) : combined[j].assistant_id # rid
  ELSE 0

\* A slip that appends every remote record without looking for an existing one.
combineStepAlwaysPush(combined, remoteAssistant) ==
  Append(combined, remoteAssistant)

\* A slip that replaces the whole existing record by the remote one.
combineStepOverwrite(combined, remoteAssistant) ==
  LET existingIndex == findIndex(combined, remoteAssistant.assistant_id)
  IN IF existingIndex = 0
     THEN Append(combined, remoteAssistant)
     ELSE [combined EXCEPT ![existingIndex] = remoteAssistant]

\* A slip that ties the push to the wrong condition: a remote record that
\* matches a local one of equal status is appended.
combineStepPushUnlessChanged(combined, remoteAssistant) ==
  LET existingIndex == findIndex(combined, remoteAssistant.assistant_id)
  IN IF existingIndex # 0 /\ remoteAssistant.status # combined[existingIndex].status
     THEN [combined EXCEPT ![existingIndex].status = remoteAssistant.status]
     ELSE Append(combined, remoteAssistant)

\* A slip that puts a remote-only record in front (unshift for push).
combineStepUnshift(combined, remoteAssistant) ==
  LET existingIndex == findIndex(combined, remoteAssistant.assistant_id)
  IN IF existingIndex = 0
     THEN <<remoteAssistant>> \o combined
     ELSE IF remoteAssistant.status # combined[existingIndex].status
          THEN [combined EXCEPT ![existingIndex].status = remoteAssistant.status]
          ELSE combined

\* One iteration of remoteMapped.forEach.
combineStep(combined, remoteAssistant) ==
  LET existingIndex == findIndex(combined, remoteAssistant.assistant_id)
  IN IF existingIndex = 0
     THEN Append(combined, remoteAssistant)
     ELSE IF remoteAssistant.status # combined[existingIndex].status
          THEN [combined EXCEPT ![existingIndex].status = remoteAssistant.status]
          ELSE combined

RECURSIVE forEachRemote(_, _, _)
forEachRemote(combined, remoteMapped, k) ==
  IF k > Len(remoteMapped) THEN combined
  ELSE forEachRemote(combineStep(combined, remoteMapped[k]), remoteMapped, k + 1)

combineAssistants(local, remote) ==
  LET remoteMapped == [i \in DOMAIN remote |-> mapVapiAssistantToLocalFormat(remote[i])]
  IN forEachRemote(local, remoteMapped, 1)

(***************************************************************************)
(* PART 2: identity resolution and dispatch (webhookService.triggerCallWebhook *)
(* and its callers)                                                        *)
(***************************************************************************)

CLIENT_VERSION == "1.3.0"

\* No payload was posted: no troubleshooting fields.
NoDiag == [client_version |-> "", id_type |-> ""]

\* Lines 631-637: the troubleshooting fields put into additional_data.  They
\* are written the same way whichever strategy produced the id.
diagnostics(usedFallback) == [client_version |-> CLIENT_VERSION, id_type |-> "vapi"]

FALLBACK_VAPI_ASSISTANT_ID == "01646bac-c486-455b-b1f7-1c8e15ba4cbf"

\* Names are sequences of characters; the empty sequence is an absent name.
NoName == <<>>
Names == {<<"A", "b">>, <<"c">>}
DefaultName == <<"p">>
CatalogIds == {"v1", "v2"}
\* The id of the i-th record of the provider's list.
CatalogIdOf(i) == <<"v1", "v2", "v3", "v4">>[i]
SupabaseIds == {"s1"}

\* Outcomes of a call that may answer with nothing or fail.
Null == "null"
Throw == "throw"

toLowerCase(s) == [i \in DOMAIN s |-> IF s[i] = "A" THEN "a" ELSE s[i]]

\* String.prototype.includes
includes(s, t) ==
  \E k \in 0..(Len(s) - Len(t)) : \A i \in 1..Len(t) : s[k + i] = t[i]

looseMatch(candidate, hint) ==
  \/ includes(toLowerCase(candidate), toLowerCase(hint))
  \/ includes(toLowerCase(hint), toLowerCase(candidate))

\* The provider's catalog: records with an id and an optional name.
CatalogNames == UpTo(Names \cup {NoName}, MaxCatalog)
Catalogs == {[i \in DOMAIN ns |-> [id |-> CatalogIdOf(i), name |-> ns[i]]] : ns \in CatalogNames}

\* The localStorage slot 'selected_assistant': empty, unparsable, or a record.
CachedRecords ==
  {[kind |-> "rec", id |-> "s1", assistant_id |-> "v1", name |-> <<"a">>],
   [kind |-> "rec", id |-> "s1", assistant_id |-> NoId, name |-> <<"a">>],
   [kind |-> "rec", id |-> NoId, assistant_id |-> NoId, name |-> <<"a">>],
   [kind |-> "rec", id |-> NoId, assistant_id |-> NoId, name |-> NoName]}
NoCached == [kind |-> "none", id |-> NoId, assistant_id |-> NoId, name |-> NoName]
CorruptCached == [kind |-> "corrupt", id |-> NoId, assistant_id |-> NoId, name |-> NoName]
CachedValues == CachedRecords \cup {NoCached, CorruptCached}

\* payload.additional_data as the caller supplies it.
Hints == [vapi : {NoId, "v1"}, supa : SupabaseIds \cup {NoId},
          name : {NoName, <<"a">>, <<"c">>}]
NoPayload == [vapi |-> NoId, supa |-> NoId, name |-> NoName]

\* The campaign prop of ActiveCampaign (id 0 stands for a missing id).
Campaigns == [id : {0, 1}, assistantName : {NoName, <<"a">>},
              assistantId : SupabaseIds \cup {NoId}, vapiAssistantId : {NoId, "v2"}]
NoCampaign == [id |-> 0, assistantName |-> NoName, assistantId |-> NoId,
               vapiAssistantId |-> NoId]

\* onCampaignStopped is an optional prop; when given it may itself throw.
Callbacks == {"absent", "ok", "throws"}

\* The campaigns list of CampaignControls.
CampaignIds == {1, 2}

\* The list when the page is opened: one running campaign and one draft.
InitialCampaigns == [i \in CampaignIds |-> IF i = 1 THEN "active" ELSE "draft"]

\* How campaignService.updateCampaign may end: the row is updated, no user is
\* signed in, the existence check fails, the campaign is not found (or is
\* another user's), or the update itself fails.
UpdateOutcomes == {"ok", "noUser", "checkError", "notFound", "updateError"}

\* Which assistant handleStartCampaign picks, and how the unseen
\* webhookService.selectAssistant it calls for a profile ends.
StartAssistants == {"profile", "profileSelectThrows", "selected", "none"}

\* The users of the application; a provider record without metadata.user_id.
Owners == {"u1", "u2"}
NoOwner == ""

\* getVapiAssistantById answers null.
NullRecord == [kind |-> "null", id |-> NoId, name |-> "", status |-> ""]

\* The parsed body of a non-2xx answer.
ErrorBody == [kind |-> "error", id |-> NoId, name |-> "", status |-> ""]

\* No record (null), and the history value before any action.
NoRecord == [id |-> NoId, name |-> NoName, assistant_id |-> NoId, user_id |-> "", status |-> ""]
NoAction == [kind |-> "none", slot |-> NoCached]

VARIABLES
  mpc, mLocal, mRemote, mLocal0, mOut,
  mOut2,                \* what a second call of combineAssistants returned
  catalog,              \* the provider's assistant catalog
  cached,               \* localStorage 'selected_assistant'
  caller,               \* which flow runs: none, direct, active, controls
  wpc,                  \* position inside triggerCallWebhook
  hints,                \* payload.additional_data on entry
  vapiAssistantId, supabaseAssistantId, assistantNameToUse,
  trace,                \* strategies attempted by triggerCallWebhook, in order
  calls,                \* catalog / store / slot lookups made by triggerCallWebhook
  posts,                \* POSTs sent to the workflow endpoint
  posted,               \* additional_data of the payload posted
  postedDiag,           \* the troubleshooting fields of that additional_data
  cachedByName,         \* what the name lookup of the cached strategy answered
  postOutcome,          \* how the POST ended
  noIdReturn,           \* the 'no assistant id available' return was taken
  result,               \* what triggerCallWebhook gave its caller
  acpc, campaign, acVapi, acTrace,
  onCampaignStopped,    \* how the onCampaignStopped prop behaves
  stoppedCalls,         \* invocations of onCampaignStopped
  acEscaped,            \* an exception left handleStopCampaign
  ccpc, campaigns, ccId, ccToast,
  ccAction,             \* which handler of CampaignControls runs
  ccUpdate,             \* how updateCampaign ended in handleStartCampaign
  gpc,                  \* position of the catalog call: idle, input, done
  store,                \* the rows of the local table 'assistants'
  provider,             \* the records GET /assistant of the provider answers
  gOp,                  \* which catalog operation was called
  gOutcome,             \* how its fetch ended
  gRaised,              \* the operation threw to its caller
  gOut,                 \* the list it returned
  gRec,                 \* the record getVapiAssistantById returned
  assistants,           \* AITraining: the list the query holds
  selectedAssistant,    \* AITraining: id of the selectedAssistant state, NoId for null
  effectPending,        \* AITraining: the effect on [assistants] has yet to run
  lastAction,           \* the latest select / create, or another writer of the slot
  nActions,             \* user actions started
  crpc,                 \* position inside handleCreateAssistant / createAssistant
  crOutcome,            \* how the creation request ended
  newAssistant,         \* what createAssistant returned
  crRejected,           \* createAssistant threw
  crReported,           \* handleCreateAssistant showed its error
  crSeq,                \* the number of the user action that requested the creation
  crWrote,              \* the creation flow wrote the slot
  crInsert,             \* how the insert of the new row ended
  dRemoteOutcome, dLocalOutcome, \* how the two DELETE requests ended
  dLookup,              \* how the lookup of the row to delete ended
  dWrote,               \* the deletion flow wrote the slot
  dMeanwhile,           \* the latest selection made while the deletion was in flight
  dpc,                  \* position inside handleDeleteAssistant / deleteAssistant
  assistantToDelete,
  dSelected, dAssistants, \* selectedAssistant and assistants as the running handler closed over them
  dSlot0,               \* the slot when the deletion was requested
  dEvents,              \* the DELETE requests issued, in order
  dReturn               \* what deleteAssistant returned

mvars == <<mpc, mLocal, mRemote, mLocal0, mOut, mOut2>>
envvars == <<catalog, cached>>
wvars == <<wpc, hints, vapiAssistantId, supabaseAssistantId, assistantNameToUse,
           trace, calls, posts, posted, postedDiag, cachedByName, postOutcome,
           noIdReturn, result>>
acvars == <<acpc, campaign, acVapi, acTrace, onCampaignStopped, stoppedCalls, acEscaped>>
ccvars == <<ccpc, campaigns, ccId, ccToast, ccAction, ccUpdate>>
dbvars == <<store, provider>>
gvars == <<gpc, gOp, gOutcome, gRaised, gOut, gRec>>
crvars == <<crpc, crOutcome, newAssistant, crRejected, crReported, crSeq, crWrote,
           crInsert>>
dvars == <<dpc, assistantToDelete, dSelected, dAssistants, dSlot0, dEvents, dReturn,
          dRemoteOutcome, dLocalOutcome, dLookup, dWrote, dMeanwhile>>
uivars == <<assistants, selectedAssistant, effectPending, lastAction, nActions>>
avars == <<crvars, dvars, uivars>>
vars == <<mvars, envvars, caller, wvars, acvars, ccvars, dbvars, gvars, avars>>

IdleWebhook ==
  /\ wpc = "idle"
  /\ hints = NoPayload
  /\ vapiAssistantId = NoId
  /\ supabaseAssistantId = NoId
  /\ assistantNameToUse = NoName
  /\ trace = <<>>
  /\ calls = {}
  /\ posts = 0
  /\ posted = NoPayload
  /\ postedDiag = NoDiag
  /\ cachedByName = "none"
  /\ postOutcome = "none"
  /\ noIdReturn = FALSE
  /\ result = "none"

IdleCallers ==
  /\ caller = "none"
  /\ acpc = "idle"
  /\ campaign = NoCampaign
  /\ acVapi = NoId
  /\ acTrace = <<>>
  /\ onCampaignStopped = "absent"
  /\ stoppedCalls = 0
  /\ acEscaped = FALSE
  /\ ccpc = "idle"
  /\ ccId = 0
  /\ ccToast = "none"
  /\ ccAction = "none"
  /\ ccUpdate = "none"

IdleCatalog ==
  /\ gpc = "idle"
  /\ store = <<>>
  /\ provider = <<>>
  /\ gOp = "none"
  /\ gOutcome = "none"
  /\ gRaised = FALSE
  /\ gOut = <<>>
  /\ gRec = NullRecord

IdleAssistants ==
  /\ assistants = <<>>
  /\ selectedAssistant = NoId
  /\ effectPending = FALSE
  /\ lastAction = NoAction
  /\ nActions = 0
  /\ crpc = "idle"
  /\ crOutcome = "none"
  /\ newAssistant = NoRecord
  /\ crRejected = FALSE
  /\ crReported = FALSE
  /\ crSeq = 0
  /\ crWrote = FALSE
  /\ crInsert = "none"
  /\ dpc = "idle"
  /\ assistantToDelete = NoRecord
  /\ dSelected = NoId
  /\ dAssistants = <<>>
  /\ dSlot0 = NoCached
  /\ dEvents = <<>>
  /\ dReturn = "none"
  /\ dRemoteOutcome = "none"
  /\ dLocalOutcome = "none"
  /\ dLookup = "none"
  /\ dWrote = FALSE
  /\ dMeanwhile = NoCached

IdleMerge ==
  /\ mpc = "idle"
  /\ mLocal = <<>>
  /\ mRemote = <<>>
  /\ mLocal0 = <<>>
  /\ mOut = <<>>
  /\ mOut2 = <<>>

InitMerge ==
  /\ mpc = "input"
  /\ mLocal \in LocalLists
  /\ mRemote \in RemoteLists
  /\ mLocal0 = mLocal
  /\ mOut = <<>>
  /\ mOut2 = <<>>
  /\ catalog = <<>>
  /\ cached = NoCached
  /\ campaigns = InitialCampaigns
  /\ IdleWebhook
  /\ IdleCallers
  /\ IdleCatalog
  /\ IdleAssistants

\* One call combineAssistants(mLocal, mRemote).  The records of `local' are
\* shared with `combined' ([...local] is a shallow copy), so the in-place
\* status update is visible in the caller's array as well.
Combine ==
  /\ mpc = "input"
  /\ mOut' = combineAssistants(mLocal, mRemote)
  /\ mLocal' = SubSeq(mOut', 1, Len(mLocal))
  /\ mpc' = "done"
  /\ UNCHANGED <<mRemote, mLocal0, mOut2, envvars, dbvars, gvars, avars, caller, wvars, acvars, ccvars>>

\* A second call combineAssistants(mLocal, mRemote) on the same arrays, the
\* local records being as the first call left them.
CombineAgain ==
  /\ mpc = "done"
  /\ mOut2' = combineAssistants(mLocal, mRemote)
  /\ mLocal' = SubSeq(mOut2', 1, Len(mLocal))
  /\ mpc' = "again"
  /\ UNCHANGED <<mRemote, mLocal0, mOut, envvars, dbvars, gvars, avars, caller, wvars, acvars, ccvars>>

NextMerge == Combine \/ CombineAgain

SpecMerge == InitMerge /\ [][NextMerge]_vars


(***************************************************************************)
(* The catalog operations of webhookService: getLocalAssistants,           *)
(* getAllAssistants, getAssistantsFromVapiApi, getVapiAssistantById,       *)
(* cacheAssistants.                                                        *)
(***************************************************************************)

\* How a GET to the provider can end: a 2xx answer, a 2xx answer whose body
\* cannot be used (response.json() rejects), a non-2xx answer, the abort after
\* FETCH_TIMEOUT, or a transport error.
AdapterOutcomes == {"2xx", "2xxBadBody", "non2xx", "timeout", "neterr"}

\* fetch(...).catch(err => null): a rejected fetch becomes null.
fetchCaught(o) == IF o \in {"timeout", "neterr"} THEN Null ELSE o

\* A slip that forgets to look at response.ok.
responseFailedOnlyNull(response) == response = Null

\* if (!response || !response.ok)
responseFailed(response) == response = Null \/ response = "non2xx"

\* Lines 161-167: the status kept when it is a known one, 'ready' otherwise.
validStatus(st) == IF st \in ValidStatuses THEN st ELSE "ready"

\* What getAssistantsFromVapiApi gives its caller for a fetch outcome o and a
\* provider content prov.  A body that is not a list makes .map throw, which
\* the catch of lines 168-171 turns into [].
listFromVapiApi(o, prov) ==
  LET response == fetchCaught(o)
  IN IF responseFailed(response) THEN [raised |-> FALSE, value |-> <<>>]
     ELSE IF response = "2xx"
          THEN [raised |-> FALSE,
                value |-> [i \in DOMAIN prov |->
                             [prov[i] EXCEPT !.status = validStatus(prov[i].status)]]]
          ELSE [raised |-> FALSE, value |-> <<>>]

\* What getVapiAssistantById gives its caller for a fetch outcome o: the
\* parsed body as it is, null after the catch of lines 204-207.
recordFromVapiApi(o, assistantId, prov) ==
  LET response == fetchCaught(o)
      found == {i \in DOMAIN prov : prov[i].id = assistantId}
  IN IF responseFailed(response) THEN [raised |-> FALSE, value |-> NullRecord]
     ELSE IF response = "2xx"
          THEN LET i == CHOOSE i \in found : TRUE
               IN [raised |-> FALSE,
                   value |-> [kind |-> "rec", id |-> prov[i].id, name |-> prov[i].name,
                              status |-> prov[i].status]]
          ELSE IF response = "non2xx" THEN [raised |-> FALSE, value |-> ErrorBody]
          ELSE [raised |-> FALSE, value |-> NullRecord]

\* Lines 290-314: the rows of the user, newest first, a missing status
\* replaced by 'ready'; the empty list when the query fails.
getLocalAssistants(rows, userId, queryOk) ==
  IF ~queryOk THEN <<>>
  ELSE LET mine == SelectSeq(rows, LAMBDA r : r.user_id = userId)
       IN [i \in DOMAIN mine |->
             [mine[i] EXCEPT !.status = IF mine[i].status = "" THEN "ready"
                                        ELSE mine[i].status]]

\* Lines 98-103: the provider records tagged with the user's id.
userAssistantsOf(vapiAssistants, userId) ==
  SelectSeq(vapiAssistants, LAMBDA a : a.owner # NoOwner /\ a.owner = userId)

\* The primary key the store gives a row inserted by cacheAssistants.
CacheIdOf(assistantId) == "c-" \o assistantId

\* One upsert of cacheAssistants (onConflict: 'assistant_id').
upsert(rows, assistant, userId) ==
  LET hit == {i \in DOMAIN rows : rows[i].assistant_id = assistant.id}
  IN IF hit = {}
     THEN Append(rows, [id |-> CacheIdOf(assistant.id), name |-> assistant.name,
                        assistant_id |-> assistant.id, user_id |-> userId,
                        status |-> validStatus(assistant.status)])
     ELSE [i \in DOMAIN rows |->
             IF i \in hit
             THEN [rows[i] EXCEPT !.name = assistant.name, !.user_id = userId,
                                  !.status = validStatus(assistant.status)]
             ELSE rows[i]]

RECURSIVE cacheAssistants(_, _, _, _)
cacheAssistants(rows, list, userId, k) ==
  IF k > Len(list) THEN rows
  ELSE cacheAssistants(upsert(rows, list[k], userId), list, userId, k + 1)

\* Lines 49-125: what getAllAssistants returns and what it leaves in the store.
getAllAssistants(rows, prov, userId, queryOk, o, cacheOk) ==
  LET localAssistants == getLocalAssistants(rows, userId, queryOk)
      response == fetchCaught(o)
  IN IF responseFailed(response) \/ response # "2xx"
     THEN [out |-> localAssistants, rows |-> rows]
     ELSE LET userAssistants == userAssistantsOf(prov, userId)
          IN [out |-> combineAssistants(localAssistants, userAssistants),
              rows |-> IF Len(userAssistants) > 0 /\ cacheOk
                       THEN cacheAssistants(rows, userAssistants, userId, 1)
                       ELSE rows]

\* The provider's records for the catalog calls; metadata.user_id is `owner'.
ProviderRecords ==
  [id : {"v1", "v2"}, name : {"R"}, status : {"pending", "weird"},
   owner : Owners \cup {NoOwner}]
ProviderLists == {R \in UpTo(ProviderRecords, MaxRemote) : DistinctIds(R)}

\* The rows of the local table: status may be missing ("") or any string.
StoreShapes == [assistant_id : {NoId, "v1"}, status : {"", "pending", "weird"},
                user_id : Owners]
StoreRow(i, s) ==
  [id |-> LocalIdOf(i), name |-> "L", assistant_id |-> s.assistant_id,
   user_id |-> s.user_id, status |-> s.status]
StoreLists ==
  {L \in {[i \in DOMAIN sh |-> StoreRow(i, sh[i])] : sh \in UpTo(StoreShapes, MaxLocal)} :
     DistinctRemoteIds(L)}

InitCatalog ==
  /\ gpc = "input"
  /\ store \in StoreLists
  /\ provider \in ProviderLists
  /\ gOp = "none"
  /\ gOutcome = "none"
  /\ gRaised = FALSE
  /\ gOut = <<>>
  /\ gRec = NullRecord
  /\ IdleMerge
  /\ IdleAssistants
  /\ catalog = <<>>
  /\ cached = NoCached
  /\ campaigns = InitialCampaigns
  /\ IdleWebhook
  /\ IdleCallers

\* One call getAllAssistants(userId).
GetAllAssistants ==
  /\ gpc = "input"
  /\ gpc' = "done"
  /\ gOp' = "all"
  /\ \E queryOk \in BOOLEAN, o \in AdapterOutcomes, cacheOk \in BOOLEAN :
       LET r == getAllAssistants(store, provider, "u1", queryOk, o, cacheOk)
       IN /\ gOutcome' = o
          /\ gOut' = r.out
          /\ store' = r.rows
  /\ UNCHANGED <<provider, gRaised, gRec>>
  /\ UNCHANGED <<mvars, envvars, caller, wvars, acvars, ccvars, avars>>

\* One call getAssistantsFromVapiApi().
GetAssistantsFromVapiApi ==
  /\ gpc = "input"
  /\ gpc' = "done"
  /\ gOp' = "list"
  /\ \E o \in AdapterOutcomes :
       LET r == listFromVapiApi(o, provider)
       IN /\ gOutcome' = o
          /\ gRaised' = r.raised
          /\ gOut' = r.value
  /\ UNCHANGED <<store, provider, gRec>>
  /\ UNCHANGED <<mvars, envvars, caller, wvars, acvars, ccvars, avars>>

\* One call getVapiAssistantById(assistantId); the provider answers 2xx only
\* for an id it knows.
GetVapiAssistantById ==
  /\ gpc = "input"
  /\ gpc' = "done"
  /\ gOp' = "byId"
  /\ \E assistantId \in {"v1", "v2"}, o \in AdapterOutcomes :
       /\ (o = "2xx") => (\E i \in DOMAIN provider : provider[i].id = assistantId)
       /\ LET r == recordFromVapiApi(o, assistantId, provider)
          IN /\ gOutcome' = o
             /\ gRaised' = r.raised
             /\ gRec' = r.value
  /\ UNCHANGED <<store, provider, gOut>>
  /\ UNCHANGED <<mvars, envvars, caller, wvars, acvars, ccvars, avars>>

NextCatalog == GetAllAssistants \/ GetAssistantsFromVapiApi \/ GetVapiAssistantById

SpecCatalog == InitCatalog /\ [][NextCatalog]_vars


(***************************************************************************)
(* AITraining (handleSelectAssistant, handleCreateAssistant,               *)
(* handleDeleteAssistant, the effect on [assistants]) with                 *)
(* webhookService.createAssistant and webhookService.deleteAssistant.      *)
(***************************************************************************)

\* User actions started in one behaviour.
MaxActions == 3

\* A row of the user's in the local table, and the provider record it names.
RowIdOf(i) == <<"s1", "s2", "s3", "s4">>[i]
RowRemoteIdOf(i) == <<"v1", "v2", "v3", "v4">>[i]
UserRow(i) ==
  [id |-> RowIdOf(i), name |-> <<"a">>, assistant_id |-> RowRemoteIdOf(i),
   user_id |-> "u1", status |-> "ready"]
UserRemote(i) ==
  [id |-> RowRemoteIdOf(i), name |-> <<"a">>, status |-> "ready", owner |-> "u1"]

\* The k-th record created in a behaviour: its primary key, the id the
\* workflow answers, and the uuidv4() drawn when it answers none.
NewIdOf(k) == <<"n1", "n2", "n3", "n4">>[k]
NewRemoteIdOf(k) == <<"w1", "w2", "w3", "w4">>[k]
UuidOf(k) == <<"uuid1", "uuid2", "uuid3", "uuid4">>[k]

\* JSON.stringify(record) as the slot keeps it.
toSlot(assistant) ==
  [kind |-> "rec", id |-> assistant.id, assistant_id |-> assistant.assistant_id,
   name |-> assistant.name]

\* The page has been opened and the list has loaded: the local rows, merged
\* with the provider's records when the provider answered.  Nothing is
\* selected in the component yet (useState(null)) and the effect on
\* [assistants] is due.
InitAssistants ==
  /\ \E n \in 0..MaxLocal, m \in 0..MaxLocal :
       /\ store = [i \in 1..n |-> UserRow(i)]
       /\ provider = [i \in 1..m |-> UserRemote(i)]
  /\ assistants \in {getAllAssistants(store, provider, "u1", TRUE, o, FALSE).out :
                       o \in {"2xx", "neterr"}}
  /\ cached \in {NoCached} \cup {toSlot(assistants[i]) : i \in DOMAIN assistants}
  /\ selectedAssistant = NoId
  /\ effectPending = TRUE
  /\ lastAction = NoAction
  /\ nActions = 0
  /\ crpc = "idle"
  /\ crOutcome = "none"
  /\ newAssistant = NoRecord
  /\ crRejected = FALSE
  /\ crReported = FALSE
  /\ crSeq = 0
  /\ crWrote = FALSE
  /\ crInsert = "none"
  /\ dpc = "idle"
  /\ assistantToDelete = NoRecord
  /\ dSelected = NoId
  /\ dAssistants = <<>>
  /\ dSlot0 = NoCached
  /\ dEvents = <<>>
  /\ dReturn = "none"
  /\ dRemoteOutcome = "none"
  /\ dLocalOutcome = "none"
  /\ dLookup = "none"
  /\ dWrote = FALSE
  /\ dMeanwhile = NoCached
  /\ IdleMerge
  /\ gpc = "idle"
  /\ gOp = "none"
  /\ gOutcome = "none"
  /\ gRaised = FALSE
  /\ gOut = <<>>
  /\ gRec = NullRecord
  /\ catalog = <<>>
  /\ campaigns = InitialCampaigns
  /\ IdleWebhook
  /\ IdleCallers

NoFlow == crpc \in {"idle", "done"} /\ dpc \in {"idle", "done"}

\* A click is handled once the effects of the last render have run: React
\* flushes pending effects before it dispatches a discrete event.
UserCanAct == ~effectPending /\ nActions < MaxActions

\* A slip that updates the component state only.
selectWritesNothing(slot, assistant) == slot

\* Line 943: localStorage.setItem('selected_assistant', JSON.stringify(assistant))
selectWrites(slot, assistant) == toSlot(assistant)

\* Lines 941-945: handleSelectAssistant(assistant), for a record of the list.
HandleSelectAssistant ==
  /\ UserCanAct
  /\ \E i \in DOMAIN assistants :
       /\ selectedAssistant' = assistants[i].id
       /\ cached' = selectWrites(cached, assistants[i])
       /\ lastAction' = [kind |-> "select", slot |-> toSlot(assistants[i])]
       /\ dMeanwhile' = IF dpc \in {"idle", "done"} THEN NoCached
                        ELSE toSlot(assistants[i])
  /\ nActions' = nActions + 1
  /\ UNCHANGED <<dpc, assistantToDelete, dSelected, dAssistants, dSlot0, dEvents,
                 dReturn, dRemoteOutcome, dLocalOutcome, dLookup, dWrote>>
  /\ UNCHANGED <<assistants, effectPending, crvars, dbvars, catalog>>
  /\ UNCHANGED <<mvars, caller, wvars, acvars, ccvars, gvars>>

\* Lines 887-911: the form is checked and createAssistant is called, which
\* sends the creation request.
HandleCreateAssistant ==
  /\ NoFlow
  /\ UserCanAct
  /\ nActions' = nActions + 1
  /\ crSeq' = nActions + 1
  /\ crWrote' = FALSE
  /\ crInsert' = "none"
  /\ newAssistant' = NoRecord
  /\ crRejected' = FALSE
  /\ \E formOk \in BOOLEAN :
       IF formOk
       THEN /\ crpc' = "post"
            /\ crOutcome' = "none"
            /\ crReported' = FALSE
       ELSE /\ crpc' = "done"
            /\ crOutcome' = "invalid"
            /\ crReported' = TRUE
  /\ UNCHANGED <<assistants, selectedAssistant, effectPending, lastAction, dvars,
                 dbvars, envvars>>
  /\ UNCHANGED <<mvars, caller, wvars, acvars, ccvars, gvars>>

\* How the creation request can end: a 2xx answer with an id, a 2xx answer
\* that only acknowledges ('... started'), a 2xx answer with neither, a 2xx
\* answer whose body cannot be read, a non-2xx answer, the abort after
\* FETCH_TIMEOUT, a transport error.
CreateOutcomes ==
  {"2xxId", "2xxStarted", "2xxNoId", "2xxBadBody", "non2xx", "timeout", "neterr"}

\* What the code can tell of a request's end: a fetch that timed out and one
\* that failed in transport both reject, a local statement that answered an
\* error and one that threw both fail.
settled(o) ==
  CASE o \in {"timeout", "neterr"} -> "rejected"
    [] o \in {"error", "throws"} -> "failed"
    [] OTHER -> o

\* A slip that generates no placeholder for an acknowledgement.
createdIdWithoutPlaceholder(o, k) ==
  IF o = "2xxId" THEN NewRemoteIdOf(k) ELSE NoId

\* A slip that carries on after a non-2xx answer, with a generated id.
createdIdIgnoringStatus(o, k) ==
  IF o = "2xxId" THEN NewRemoteIdOf(k)
  ELSE IF o \in {"2xxStarted", "non2xx"} THEN UuidOf(k)
  ELSE NoId

\* Lines 353-373: the assistant_id to store, NoId when the function throws.
createdId(o, k) ==
  IF o = "2xxId" THEN NewRemoteIdOf(k)
  ELSE IF o = "2xxStarted" THEN UuidOf(k)
  ELSE NoId

\* Lines 332-373 and 418-422, then 931-938 when createAssistant threw.
CreatePosted ==
  /\ crpc = "post"
  /\ \E o \in CreateOutcomes :
       LET assistantId == createdId(o, crSeq)
       IN /\ crOutcome' = settled(o)
          /\ IF assistantId # NoId
             THEN /\ crpc' = "insert"
                  /\ newAssistant' = [NoRecord EXCEPT !.assistant_id = assistantId]
                  /\ provider' = IF o = "2xxId"
                                 THEN Append(provider,
                                        [id |-> assistantId, name |-> <<"a">>,
                                         status |-> "pending", owner |-> "u1"])
                                 ELSE provider
                  /\ UNCHANGED <<crRejected, crReported>>
             ELSE /\ crpc' = "done"
                  /\ crRejected' = TRUE
                  /\ crReported' = TRUE
                  /\ UNCHANGED <<newAssistant, provider>>
  /\ UNCHANGED <<crSeq, crWrote, crInsert, dvars, uivars, store, envvars>>
  /\ UNCHANGED <<mvars, caller, wvars, acvars, ccvars, gvars>>

\* A slip that leaves the slot to the caller.
createWritesNothing(slot, savedAssistant) == slot

\* Line 408: localStorage.setItem('selected_assistant', JSON.stringify(savedAssistant))
createWrites(slot, savedAssistant) == toSlot(savedAssistant)

\* Lines 376-417: the insert into the local table, the slot, the return; then
\* lines 931-938 when createAssistant threw, the call of refetch otherwise.
CreateInserted ==
  /\ crpc = "insert"
  /\ \E db \in {"ok", "dbError", "noData", "throws"} :
       /\ crInsert' = IF db = "ok" THEN "ok" ELSE "failed"
       /\ IF db = "ok"
          THEN LET savedAssistant ==
                  [id |-> NewIdOf(crSeq), name |-> <<"a">>,
                   assistant_id |-> newAssistant.assistant_id,
                   user_id |-> "u1", status |-> "pending"]
               IN /\ store' = <<savedAssistant>> \o store
                  /\ cached' = createWrites(cached, savedAssistant)
                  /\ newAssistant' = savedAssistant
                  /\ lastAction' = [kind |-> "create", slot |-> toSlot(savedAssistant)]
                  /\ crWrote' = (cached' # cached)
                  /\ crpc' = "refetch"
                  /\ UNCHANGED <<crRejected, crReported>>
          ELSE /\ crpc' = "done"
               /\ crRejected' = TRUE
               /\ crReported' = TRUE
               /\ newAssistant' = NoRecord
               /\ UNCHANGED <<store, cached, lastAction, crWrote>>
  /\ UNCHANGED <<crOutcome, crSeq, dvars, assistants, selectedAssistant,
                 effectPending, nActions, provider, catalog>>
  /\ UNCHANGED <<mvars, caller, wvars, acvars, ccvars, gvars>>

\* Line 916: await refetch(), that is getAllAssistants(user.id).
CreateRefetched ==
  /\ crpc = "refetch"
  /\ crpc' = "select"
  /\ \E queryOk \in BOOLEAN, o \in AdapterOutcomes, cacheOk \in BOOLEAN :
       LET r == getAllAssistants(store, provider, "u1", queryOk, o, cacheOk)
       IN /\ assistants' = r.out
          /\ store' = r.rows
  /\ effectPending' = TRUE
  /\ UNCHANGED <<crOutcome, newAssistant, crRejected, crReported, crSeq, crWrote,
                 crInsert,
                 dvars, selectedAssistant, lastAction, nActions, provider, envvars>>
  /\ UNCHANGED <<mvars, caller, wvars, acvars, ccvars, gvars>>

\* Lines 918-938: the new record is selected.
CreateSelected ==
  /\ crpc = "select"
  /\ crpc' = "done"
  /\ selectedAssistant' = newAssistant.id
  /\ cached' = toSlot(newAssistant)
  /\ lastAction' = [kind |-> "create", slot |-> toSlot(newAssistant)]
  /\ crWrote' = TRUE
  /\ UNCHANGED <<crOutcome, newAssistant, crRejected, crReported, crSeq, crInsert,
                 dvars, assistants, effectPending, nActions, dbvars, catalog>>
  /\ UNCHANGED <<mvars, caller, wvars, acvars, ccvars, gvars>>

\* Lines 957-962 and 218-222: the dialog is confirmed, deleteAssistant is
\* called and reads the row.
HandleDeleteAssistant ==
  /\ NoFlow
  /\ UserCanAct
  /\ nActions' = nActions + 1
  /\ \E i \in DOMAIN assistants : assistantToDelete' = assistants[i]
  /\ dSelected' = selectedAssistant
  /\ dAssistants' = assistants
  /\ dSlot0' = cached
  /\ dEvents' = <<>>
  /\ dReturn' = "none"
  /\ dRemoteOutcome' = "none"
  /\ dLocalOutcome' = "none"
  /\ dLookup' = "none"
  /\ dWrote' = FALSE
  /\ dMeanwhile' = NoCached
  /\ dpc' = "fetch"
  /\ UNCHANGED <<assistants, selectedAssistant, effectPending, lastAction, crvars,
                 dbvars, envvars>>
  /\ UNCHANGED <<mvars, caller, wvars, acvars, ccvars, gvars>>

\* The rows with the primary key id.
rowsWithId(rows, id) == {i \in DOMAIN rows : rows[i].id = id}

\* A slip that looks at the error only and goes on without a row.
lookupFailedOnlyOnError(q, found) == q # "ok"

\* Line 224: if (fetchError || !assistant)
lookupFailed(q, found) == q # "ok" \/ found = {}

\* assistant.assistant_id of the row read, undefined without a row.
remoteIdOfRow(rows, id) ==
  IF rowsWithId(rows, id) = {} THEN NoId
  ELSE rows[CHOOSE i \in rowsWithId(rows, id) : TRUE].assistant_id

\* Lines 224-241: nothing more is done without the row; otherwise the DELETE
\* request goes to the provider.
DeleteFetched ==
  /\ dpc = "fetch"
  /\ \E q \in {"ok", "error", "throws"} :
       LET found == rowsWithId(store, assistantToDelete.id)
       IN /\ dLookup' = IF q = "ok" /\ found # {} THEN "ok" ELSE "failed"
          /\ IF ~lookupFailed(q, found)
             THEN /\ dpc' = "remote"
                  /\ dEvents' = Append(dEvents, "remote")
                  /\ UNCHANGED dReturn
             ELSE /\ dpc' = "done"
                  /\ dReturn' = "false"
                  /\ UNCHANGED dEvents
  /\ dSelected' = IF dpc' = "done" THEN NoId ELSE dSelected
  /\ dAssistants' = IF dpc' = "done" THEN <<>> ELSE dAssistants
  /\ UNCHANGED <<assistantToDelete, dSlot0, dRemoteOutcome,
                 dLocalOutcome, dWrote, dMeanwhile, crvars, uivars, dbvars, envvars>>
  /\ UNCHANGED <<mvars, caller, wvars, acvars, ccvars, gvars>>

\* A slip that gives up when the provider did not delete.
localDeleteFollowsOnlySuccess(o) == o = "2xx"

\* Lines 245-254: whatever the provider answered, the local delete follows.
localDeleteFollows(o) == TRUE

\* Lines 243-260: the answer to the DELETE request, then the local delete.
DeleteRemoteDone ==
  /\ dpc = "remote"
  /\ \E o \in {"2xx", "non2xx", "timeout", "neterr"} :
       LET remoteId == remoteIdOfRow(store, assistantToDelete.id)
       IN /\ dRemoteOutcome' = settled(o)
          /\ provider' = IF o = "2xx"
                         THEN SelectSeq(provider, LAMBDA a : a.id # remoteId)
                         ELSE provider
          /\ IF localDeleteFollows(o)
             THEN /\ dpc' = "local"
                  /\ dEvents' = Append(dEvents, "local")
                  /\ UNCHANGED dReturn
             ELSE /\ dpc' = "done"
                  /\ dReturn' = "false"
                  /\ UNCHANGED dEvents
  /\ dSelected' = IF dpc' = "done" THEN NoId ELSE dSelected
  /\ dAssistants' = IF dpc' = "done" THEN <<>> ELSE dAssistants
  /\ UNCHANGED <<assistantToDelete, dSlot0, dLocalOutcome, dLookup, dWrote, dMeanwhile,
                 crvars, uivars, store, envvars>>
  /\ UNCHANGED <<mvars, caller, wvars, acvars, ccvars, gvars>>

\* A slip that leaves the slot alone.
slotAfterDeleteKept(slot, assistantId) == slot

\* Lines 268-275: the slot is emptied when it holds the deleted record.
slotAfterDelete(slot, assistantId) ==
  IF slot.kind = "rec" /\ slot.id = assistantId THEN NoCached ELSE slot

\* Lines 262-284: the answer to the local delete, the slot, the return value;
\* then line 966 (refetch is called) or lines 982-989.
DeleteLocalDone ==
  /\ dpc = "local"
  /\ \E l \in {"ok", "error", "throws"} :
       /\ dLocalOutcome' = settled(l)
       /\ IF l = "ok"
          THEN /\ store' = SelectSeq(store, LAMBDA r : r.id # assistantToDelete.id)
               /\ cached' = slotAfterDelete(cached, assistantToDelete.id)
               /\ lastAction' = IF cached' # cached
                                THEN [kind |-> "delete", slot |-> cached']
                                ELSE lastAction
               /\ dReturn' = "true"
               /\ dpc' = "refetch"
          ELSE /\ dReturn' = "false"
               /\ dpc' = "done"
               /\ UNCHANGED <<store, cached, lastAction>>
  /\ dWrote' = (cached' # cached)
  /\ dSelected' = IF dpc' = "done" THEN NoId ELSE dSelected
  /\ dAssistants' = IF dpc' = "done" THEN <<>> ELSE dAssistants
  /\ UNCHANGED <<assistantToDelete, dSlot0, dEvents,
                 dRemoteOutcome, dLookup, dMeanwhile, crvars,
                 assistants, selectedAssistant, effectPending, nActions, provider, catalog>>
  /\ UNCHANGED <<mvars, caller, wvars, acvars, ccvars, gvars>>

\* Line 966: await refetch().
DeleteRefetched ==
  /\ dpc = "refetch"
  /\ dpc' = "after"
  /\ \E queryOk \in BOOLEAN, o \in AdapterOutcomes, cacheOk \in BOOLEAN :
       LET r == getAllAssistants(store, provider, "u1", queryOk, o, cacheOk)
       IN /\ assistants' = r.out
          /\ store' = r.rows
  /\ effectPending' = TRUE
  /\ UNCHANGED <<assistantToDelete, dSelected, dAssistants, dSlot0, dEvents, dReturn,
                 dRemoteOutcome, dLocalOutcome, dLookup, dWrote, dMeanwhile,
                 crvars, selectedAssistant, lastAction, nActions, provider, envvars>>
  /\ UNCHANGED <<mvars, caller, wvars, acvars, ccvars, gvars>>

\* A slip that forgets to leave the deleted record out.
remainingUnfiltered(list, id) == list

\* Line 970: assistants?.filter(a => a.id !== assistantToDelete.id) || []
remainingAssistants(list, id) == SelectSeq(list, LAMBDA a : a.id # id)

\* Lines 969-978 and 985-989: another record is selected when the deleted one
\* was the selected one, by the state and the list the handler closed over.
DeleteAfterRefetch ==
  /\ dpc = "after"
  /\ dpc' = "done"
  /\ IF dSelected # NoId /\ dSelected = assistantToDelete.id
     THEN LET remaining == remainingAssistants(dAssistants, assistantToDelete.id)
          IN /\ IF Len(remaining) > 0
                THEN /\ selectedAssistant' = remaining[1].id
                     /\ cached' = toSlot(remaining[1])
                ELSE /\ selectedAssistant' = NoId
                     /\ cached' = NoCached
             /\ lastAction' = [kind |-> "delete", slot |-> cached']
     ELSE UNCHANGED <<selectedAssistant, cached, lastAction>>
  /\ dWrote' = (dWrote \/ (dSelected # NoId /\ dSelected = assistantToDelete.id))
  /\ dSelected' = NoId
  /\ dAssistants' = <<>>
  /\ UNCHANGED <<assistantToDelete, dSlot0, dEvents, dReturn,
                 dRemoteOutcome, dLocalOutcome, dLookup, dMeanwhile,
                 crvars, assistants, effectPending, nActions, dbvars, catalog>>
  /\ UNCHANGED <<mvars, caller, wvars, acvars, ccvars, gvars>>

\* Lines 872-885: the effect on [assistants].
AssistantsEffect ==
  /\ effectPending
  /\ effectPending' = FALSE
  /\ CASE cached.kind = "rec" ->
            /\ selectedAssistant' = cached.id
            /\ UNCHANGED <<cached, lastAction>>
       [] cached.kind = "corrupt" ->
            UNCHANGED <<selectedAssistant, cached, lastAction>>
       [] cached.kind = "none" ->
            IF Len(assistants) > 0
            THEN /\ selectedAssistant' = assistants[1].id
                 /\ cached' = toSlot(assistants[1])
                 /\ lastAction' = [kind |-> "effect", slot |-> cached']
            ELSE UNCHANGED <<selectedAssistant, cached, lastAction>>
  /\ UNCHANGED <<assistants, nActions, crvars, dvars, dbvars, catalog>>
  /\ UNCHANGED <<mvars, caller, wvars, acvars, ccvars, gvars>>

NextAssistants ==
  \/ HandleSelectAssistant
  \/ HandleCreateAssistant
  \/ CreatePosted
  \/ CreateInserted
  \/ CreateRefetched
  \/ CreateSelected
  \/ HandleDeleteAssistant
  \/ DeleteFetched
  \/ DeleteRemoteDone
  \/ DeleteLocalDone
  \/ DeleteRefetched
  \/ DeleteAfterRefetch
  \/ AssistantsEffect

SpecAssistants == InitAssistants /\ [][NextAssistants]_vars


(***************************************************************************)
(* triggerCallWebhook.  One action per await point; the synchronous code   *)
(* between two awaits belongs to the action that follows the first one.    *)
(***************************************************************************)

\* What assistantService.getVapiAssistantIdByName / ensureVapiAssistantId may answer.
LookupOutcomes == CatalogIds \cup {Null, Throw}

\* What assistantService.getAssistantById may answer.
DbOutcomes ==
  [kind : {"rec"}, assistant_id : {NoId, "v1"}, name : {<<"a">>}]
    \cup {[kind |-> k, assistant_id |-> NoId, name |-> NoName] : k \in {Null, Throw}}

\* What assistantService.ensureVapiAssistantId(x) may answer: the remote id the
\* local record x carries, x itself when the provider knows a record under
\* that id, or nothing.
EnsureOutcomes(x) ==
  (IF x \in SupabaseIds THEN CatalogIds \cup {x} ELSE {x}) \cup {Null, Throw}

Entry(s, id, err) == [s |-> s, id |-> id, err |-> err]

\* Entry of triggerCallWebhook: the three hints are read from the payload.
StartWebhook(h) ==
  /\ wpc' = "name"
  /\ hints' = h
  /\ vapiAssistantId' = h.vapi
  /\ supabaseAssistantId' = h.supa
  /\ assistantNameToUse' = h.name
  /\ trace' = <<Entry("supplied", h.vapi, "")>>
  /\ UNCHANGED <<calls, posts, posted, postedDiag, cachedByName, postOutcome,
                 noIdReturn, result>>

\* A slip that looks the name up even when an id was supplied.
nameLookupWheneverNamed(name, id) == name # NoName

\* Line 435: the guard of "Estrategia 1".
nameLookupApplies(name, id) == name # NoName /\ id = NoId

\* "Estrategia 1" with its try / catch left out: the error reaches the outer
\* catch of triggerCallWebhook, which returns {success: false}.
WNameUncaught ==
  /\ wpc = "name"
  /\ IF nameLookupApplies(assistantNameToUse, vapiAssistantId)
     THEN \E idByName \in LookupOutcomes :
            /\ vapiAssistantId' = IF idByName \in CatalogIds THEN idByName ELSE vapiAssistantId
            /\ trace' = Append(trace, Entry("name", vapiAssistantId',
                                            IF idByName = Throw THEN "name" ELSE ""))
            /\ calls' = calls \cup {"byName"}
            /\ wpc' = IF idByName = Throw THEN "returned" ELSE "ensure"
            /\ result' = IF idByName = Throw THEN "false" ELSE result
     ELSE /\ wpc' = "ensure"
          /\ UNCHANGED <<vapiAssistantId, trace, calls, result>>
  /\ UNCHANGED <<hints, supabaseAssistantId, assistantNameToUse, posts, posted,
                 postedDiag, cachedByName, postOutcome, noIdReturn>>
  /\ UNCHANGED <<mvars, envvars, dbvars, gvars, avars, caller, acvars, ccvars>>

\* "Estrategia 1": id by name.
WName ==
  /\ wpc = "name"
  /\ wpc' = "ensure"
  /\ IF nameLookupApplies(assistantNameToUse, vapiAssistantId)
     THEN \E idByName \in LookupOutcomes :
            /\ vapiAssistantId' = IF idByName \in CatalogIds THEN idByName ELSE vapiAssistantId
            /\ trace' = Append(trace, Entry("name", vapiAssistantId',
                                            IF idByName = Throw THEN "name" ELSE ""))
            /\ calls' = calls \cup {"byName"}
     ELSE UNCHANGED <<vapiAssistantId, trace, calls>>
  /\ UNCHANGED <<hints, supabaseAssistantId, assistantNameToUse, posts, posted,
                 postedDiag, cachedByName, postOutcome, noIdReturn, result>>
  /\ UNCHANGED <<mvars, envvars, dbvars, gvars, avars, caller, acvars, ccvars>>

\* "Estrategia 2": confirm the local id against the provider.
WEnsure ==
  /\ wpc = "ensure"
  /\ wpc' = "db"
  /\ IF vapiAssistantId = NoId /\ supabaseAssistantId # NoId
     THEN \E confirmedVapiId \in EnsureOutcomes(supabaseAssistantId) :
            IF confirmedVapiId \notin {Null, Throw}
            THEN /\ vapiAssistantId' = confirmedVapiId
                 /\ trace' = Append(trace, Entry("ensure", confirmedVapiId, ""))
                 /\ IF assistantNameToUse = NoName
                    THEN \* getVapiAssistantById: a record with a name, or nothing
                         /\ \E detailsName \in {NoName, <<"c">>} :
                              assistantNameToUse' = detailsName
                         /\ calls' = calls \cup {"ensure", "getById"}
                    ELSE /\ UNCHANGED assistantNameToUse
                         /\ calls' = calls \cup {"ensure"}
            ELSE /\ trace' = Append(trace, Entry("ensure", NoId,
                                      IF confirmedVapiId = Throw THEN "ensure" ELSE ""))
                 /\ calls' = calls \cup {"ensure"}
                 /\ UNCHANGED <<vapiAssistantId, assistantNameToUse>>
     ELSE UNCHANGED <<vapiAssistantId, assistantNameToUse, trace, calls>>
  /\ UNCHANGED <<hints, supabaseAssistantId, posts, posted, postedDiag, cachedByName,
                 postOutcome, noIdReturn, result>>
  /\ UNCHANGED <<mvars, envvars, dbvars, gvars, avars, caller, acvars, ccvars>>

\* "Estrategia 3": read the local record.
WDb ==
  /\ wpc = "db"
  /\ wpc' = "cached"
  /\ IF vapiAssistantId = NoId /\ supabaseAssistantId # NoId
     THEN \E assistantFromDb \in DbOutcomes :
            /\ calls' = calls \cup {"dbById"}
            /\ IF assistantFromDb.kind = "rec" /\ assistantFromDb.assistant_id # NoId
               THEN /\ vapiAssistantId' = assistantFromDb.assistant_id
                    /\ assistantNameToUse' = assistantFromDb.name
                    /\ trace' = Append(trace, Entry("db", assistantFromDb.assistant_id, ""))
               ELSE /\ trace' = Append(trace, Entry("db", NoId,
                                   IF assistantFromDb.kind = Throw THEN "db" ELSE ""))
                    /\ UNCHANGED <<vapiAssistantId, assistantNameToUse>>
     ELSE UNCHANGED <<vapiAssistantId, assistantNameToUse, trace, calls>>
  /\ UNCHANGED <<hints, supabaseAssistantId, posts, posted, postedDiag, cachedByName,
                 postOutcome, noIdReturn, result>>
  /\ UNCHANGED <<mvars, envvars, dbvars, gvars, avars, caller, acvars, ccvars>>

\* A slip that prefers the local id of the cached record.
idFromSlotLocalFirst(assistant) ==
  IF assistant.id # NoId THEN assistant.id ELSE assistant.assistant_id

\* Line 503: assistant.assistant_id || assistant.id
idFromSlot(assistant) ==
  IF assistant.assistant_id # NoId THEN assistant.assistant_id ELSE assistant.id

\* "Estrategia 4": the cached selection.
WCached ==
  /\ wpc = "cached"
  /\ wpc' = "list"
  /\ IF vapiAssistantId = NoId
     THEN CASE cached.kind = "none" ->
                 /\ trace' = Append(trace, Entry("cached", NoId, ""))
                 /\ calls' = calls \cup {"slot"}
                 /\ UNCHANGED <<vapiAssistantId, supabaseAssistantId, assistantNameToUse,
                                cachedByName>>
            [] cached.kind = "corrupt" ->
                 \* JSON.parse throws
                 /\ trace' = Append(trace, Entry("cached", NoId, "parse"))
                 /\ calls' = calls \cup {"slot"}
                 /\ UNCHANGED <<vapiAssistantId, supabaseAssistantId, assistantNameToUse,
                                cachedByName>>
            [] cached.kind = "rec" ->
                 LET fromSlot == idFromSlot(cached)
                     needName == cached.name # NoName /\ fromSlot = NoId
                 IN /\ supabaseAssistantId' = cached.id
                    /\ assistantNameToUse' = cached.name
                    /\ \E idByName \in (IF needName THEN LookupOutcomes ELSE {Null}) :
                       LET afterName == IF idByName \in CatalogIds THEN idByName ELSE fromSlot
                       IN \E confirmedVapiId \in
                             (IF afterName # NoId THEN EnsureOutcomes(afterName) ELSE {Null}) :
                            /\ vapiAssistantId' = IF confirmedVapiId \notin {Null, Throw}
                                                  THEN confirmedVapiId ELSE afterName
                            /\ cachedByName' = IF needName THEN idByName ELSE "none"
                            /\ trace' = Append(trace, Entry("cached", vapiAssistantId',
                                          IF idByName = Throw THEN "cachedName"
                                          ELSE IF confirmedVapiId = Throw THEN "confirm"
                                          ELSE ""))
                            /\ calls' = calls \cup {"slot"}
                                 \cup (IF needName THEN {"byName"} ELSE {})
                                 \cup (IF afterName # NoId THEN {"ensure"} ELSE {})
     ELSE UNCHANGED <<vapiAssistantId, supabaseAssistantId, assistantNameToUse, trace, calls,
                      cachedByName>>
  /\ UNCHANGED <<hints, posts, posted, postedDiag, postOutcome, noIdReturn, result>>
  /\ UNCHANGED <<mvars, envvars, dbvars, gvars, avars, caller, acvars, ccvars>>

\* getAssistantsFromVapiApi: the catalog on a 2xx answer, the empty list on a
\* network error, a timeout or a non-2xx answer.
getAssistantsFromVapiApi(fetchOk) == IF fetchOk THEN catalog ELSE <<>>

\* vapiAssistants.find(...) of "Estrategia 5": the index of the first record
\* whose name loosely matches, 0 when there is none, -1 when a record without
\* a name is reached first (a.name.toLowerCase() throws).
findByName(list, name) ==
  LET hit(i) == list[i].name # NoName /\ looseMatch(list[i].name, name)
      bad(i) == list[i].name = NoName
      stops == {i \in DOMAIN list : hit(i) \/ bad(i)}
      first == CHOOSE i \in stops : \A j \in stops : i <= j
  IN IF stops = {} THEN 0 ELSE IF bad(first) THEN -1 ELSE first

\* "Estrategia 5": the provider's list.
WList ==
  /\ wpc = "list"
  /\ wpc' = "final"
  /\ IF vapiAssistantId = NoId
     THEN \E fetchOk \in BOOLEAN :
            LET vapiAssistants == getAssistantsFromVapiApi(fetchOk)
                m == IF assistantNameToUse # NoName /\ Len(vapiAssistants) > 0
                     THEN findByName(vapiAssistants, assistantNameToUse) ELSE 0
                err == IF ~fetchOk THEN "list" ELSE IF m = -1 THEN "listMatch" ELSE ""
            IN /\ calls' = calls \cup {"list"}
               /\ IF Len(vapiAssistants) = 0 \/ m = -1
                  THEN /\ trace' = Append(trace, Entry("list", NoId, err))
                       /\ UNCHANGED <<vapiAssistantId, assistantNameToUse>>
                  ELSE IF m > 0
                  THEN /\ vapiAssistantId' = vapiAssistants[m].id
                       /\ trace' = Append(trace, Entry("list", vapiAssistants[m].id, ""))
                       /\ UNCHANGED assistantNameToUse
                  ELSE /\ vapiAssistantId' = vapiAssistants[1].id
                       /\ assistantNameToUse' = vapiAssistants[1].name
                       /\ trace' = Append(trace, Entry("list", vapiAssistants[1].id, ""))
     ELSE UNCHANGED <<vapiAssistantId, assistantNameToUse, trace, calls>>
  /\ UNCHANGED <<hints, supabaseAssistantId, posts, posted, postedDiag, cachedByName,
                 postOutcome, noIdReturn, result>>
  /\ UNCHANGED <<mvars, envvars, dbvars, gvars, avars, caller, acvars, ccvars>>

\* A slip that never falls back.
useFallbackNever(id) == id

\* A slip that always posts the fallback id.
useFallbackAlways(id) == FALLBACK_VAPI_ASSISTANT_ID

\* "Estrategia 6": the fallback id when nothing else was found.
useFallback(id) == IF id = NoId THEN FALLBACK_VAPI_ASSISTANT_ID ELSE id

\* Fallback, the guard on a missing id, the payload, and the POST being sent.
WFinalize ==
  /\ wpc = "final"
  /\ LET finalId == useFallback(vapiAssistantId)
         finalName == IF vapiAssistantId = NoId THEN DefaultName ELSE assistantNameToUse
     IN /\ vapiAssistantId' = finalId
        /\ assistantNameToUse' = finalName
        /\ trace' = IF vapiAssistantId = NoId
                    THEN Append(trace, Entry("fallback", finalId, ""))
                    ELSE trace
        /\ IF finalId = NoId
           THEN /\ noIdReturn' = TRUE
                /\ result' = "false"
                /\ wpc' = "returned"
                /\ UNCHANGED <<posts, posted, postedDiag>>
           ELSE /\ posted' = [vapi |-> finalId,
                              supa |-> IF supabaseAssistantId # NoId
                                       THEN supabaseAssistantId ELSE hints.supa,
                              name |-> IF finalName # NoName THEN finalName ELSE hints.name]
                /\ postedDiag' = diagnostics(vapiAssistantId = NoId)
                /\ posts' = posts + 1
                /\ wpc' = "posting"
                /\ UNCHANGED <<noIdReturn, result>>
  /\ UNCHANGED <<hints, supabaseAssistantId, calls, cachedByName, postOutcome>>
  /\ UNCHANGED <<mvars, envvars, dbvars, gvars, avars, caller, acvars, ccvars>>

\* How the POST can end: a 2xx answer, a non-2xx answer (whose body may fail
\* to be read), the abort after FETCH_TIMEOUT, or a transport error.
PostOutcomes == {"2xx", "non2xx", "non2xxBodyFails", "timeout", "neterr"}

\* A slip that lets the abort escape to the caller.
interpretRethrowsAbort(o) ==
  IF o = "2xx" THEN "true" ELSE IF o = "timeout" THEN "threw" ELSE "false"

\* Lines 645-681: the inner try / catch around the fetch.
interpretResponse(o) == IF o = "2xx" THEN "true" ELSE "false"

\* A slip that sends the payload again after a failure.
WPostOutcomeRetry ==
  /\ wpc = "posting"
  /\ \E o \in PostOutcomes :
       /\ postOutcome' = o
       /\ IF o # "2xx" /\ posts < 2
          THEN /\ wpc' = "final"
               /\ UNCHANGED result
          ELSE /\ wpc' = "returned"
               /\ result' = interpretResponse(o)
  /\ UNCHANGED <<hints, vapiAssistantId, supabaseAssistantId, assistantNameToUse,
                 trace, calls, posts, posted, postedDiag, cachedByName, noIdReturn>>
  /\ UNCHANGED <<mvars, envvars, dbvars, gvars, avars, caller, acvars, ccvars>>

\* The answer to the POST.
WPostOutcome ==
  /\ wpc = "posting"
  /\ \E o \in PostOutcomes :
       /\ postOutcome' = o
       /\ result' = interpretResponse(o)
  /\ wpc' = "returned"
  /\ UNCHANGED <<hints, vapiAssistantId, supabaseAssistantId, assistantNameToUse,
                 trace, calls, posts, posted, postedDiag, cachedByName, noIdReturn>>
  /\ UNCHANGED <<mvars, envvars, dbvars, gvars, avars, caller, acvars, ccvars>>

Webhook == WName \/ WEnsure \/ WDb \/ WCached \/ WList \/ WFinalize \/ WPostOutcome

\* A caller that hands its payload straight to triggerCallWebhook.
DirectCall ==
  /\ caller = "none"
  /\ caller' = "direct"
  /\ \E h \in Hints : StartWebhook(h)
  /\ UNCHANGED <<mvars, envvars, dbvars, gvars, avars, acvars, ccvars>>

(***************************************************************************)
(* ActiveCampaign.handleStopCampaign                                       *)
(***************************************************************************)

\* Lines 41-48: the guard on campaign.id.
ACHandleStop ==
  /\ caller = "none"
  /\ caller' = "active"
  /\ \E c \in Campaigns :
       /\ campaign' = c
       /\ acpc' = IF c.id = 0 THEN "done" ELSE "name"
  /\ UNCHANGED <<acVapi, acTrace, onCampaignStopped, stoppedCalls, acEscaped>>
  /\ UNCHANGED <<mvars, envvars, dbvars, gvars, avars, wvars, ccvars>>

\* Lines 55-68: id by name.
ACName ==
  /\ acpc = "name"
  /\ acpc' = "existing"
  /\ IF campaign.assistantName # NoName
     THEN \E r \in LookupOutcomes :
            /\ acVapi' = IF r \in CatalogIds THEN r ELSE NoId
            /\ acTrace' = Append(acTrace, Entry("name", acVapi',
                                                IF r = Throw THEN "name" ELSE ""))
     ELSE UNCHANGED <<acVapi, acTrace>>
  /\ UNCHANGED <<campaign, onCampaignStopped, stoppedCalls, acEscaped>>
  /\ UNCHANGED <<mvars, envvars, dbvars, gvars, avars, caller, wvars, ccvars>>

\* Lines 71-91: the ids the campaign carries.
ACExisting ==
  /\ acpc = "existing"
  /\ acpc' = "list"
  /\ IF acVapi = NoId
     THEN IF campaign.assistantId # NoId /\ campaign.vapiAssistantId = NoId
          THEN \E r \in EnsureOutcomes(campaign.assistantId) :
                 /\ acVapi' = IF r \notin {Null, Throw} THEN r ELSE NoId
                 /\ acTrace' = acTrace \o <<Entry("supplied", NoId, ""),
                                            Entry("ensure", acVapi',
                                                  IF r = Throw THEN "ensure" ELSE "")>>
          ELSE /\ acVapi' = campaign.vapiAssistantId
               /\ acTrace' = Append(acTrace, Entry("supplied", campaign.vapiAssistantId, ""))
     ELSE UNCHANGED <<acVapi, acTrace>>
  /\ UNCHANGED <<campaign, onCampaignStopped, stoppedCalls, acEscaped>>
  /\ UNCHANGED <<mvars, envvars, dbvars, gvars, avars, caller, wvars, ccvars>>

\* Lines 94-105: the first record of the provider's list.
ACList ==
  /\ acpc = "list"
  /\ acpc' = "dispatch"
  /\ IF acVapi = NoId
     THEN \E fetchOk \in BOOLEAN :
            LET vapiAssistants == getAssistantsFromVapiApi(fetchOk)
            IN /\ acVapi' = IF Len(vapiAssistants) > 0 THEN vapiAssistants[1].id ELSE NoId
               /\ acTrace' = Append(acTrace, Entry("list", acVapi',
                                                   IF fetchOk THEN "" ELSE "list"))
     ELSE UNCHANGED <<acVapi, acTrace>>
  /\ UNCHANGED <<campaign, onCampaignStopped, stoppedCalls, acEscaped>>
  /\ UNCHANGED <<mvars, envvars, dbvars, gvars, avars, caller, wvars, ccvars>>

\* Lines 110-122: the stop_campaign dispatch.
ACDispatch ==
  /\ acpc = "dispatch"
  /\ acpc' = "await"
  /\ StartWebhook([vapi |-> acVapi, supa |-> campaign.assistantId,
                   name |-> campaign.assistantName])
  /\ UNCHANGED <<campaign, acVapi, acTrace, onCampaignStopped, stoppedCalls, acEscaped>>
  /\ UNCHANGED <<mvars, envvars, dbvars, gvars, avars, caller, ccvars>>

\* A slip that advances the local state only after an accepted dispatch.
stopCallsOnlyOnSuccess(res, cb, invalidateThrows) ==
  IF cb = "absent" THEN 0
  ELSE IF res = "threw" THEN 1
  ELSE IF res = "true"
       THEN IF cb = "throws" \/ invalidateThrows THEN 2 ELSE 1
       ELSE IF invalidateThrows THEN 1 ELSE 0

\* Lines 124-150: how many times onCampaignStopped is invoked.  Both branches
\* invoke it once; the catch block invokes it again when the callback or the
\* query invalidation that follows it throws.
stopCalls(res, cb, invalidateThrows) ==
  IF cb = "absent" THEN 0
  ELSE IF res = "threw" THEN 1
  ELSE IF res = "true"
       THEN IF cb = "throws" \/ invalidateThrows THEN 2 ELSE 1
       ELSE IF cb = "throws" \/ invalidateThrows THEN 2 ELSE 1

\* Lines 124-153: after the dispatch returned.
ACAfter ==
  /\ acpc = "await"
  /\ wpc = "returned"
  /\ acpc' = "done"
  /\ \E cb \in Callbacks, invalidateThrows \in BOOLEAN :
       /\ onCampaignStopped' = cb
       /\ stoppedCalls' = stoppedCalls + stopCalls(result, cb, invalidateThrows)
       \* a throw inside the catch block leaves the handler
       /\ acEscaped' = (cb = "throws")
  /\ UNCHANGED <<campaign, acVapi, acTrace>>
  /\ UNCHANGED <<mvars, envvars, dbvars, gvars, avars, caller, wvars, ccvars>>

(***************************************************************************)
(* CampaignControls.handleStopCampaign                                     *)
(***************************************************************************)

\* campaigns.map(c => c.id === id ? {...c, status} : c)
setStatus(cs, id, status) == [c \in DOMAIN cs |-> IF c = id THEN status ELSE cs[c]]

\* Lines 295-312: the local status first, then the dispatch.
CCHandleStop ==
  /\ caller = "none"
  /\ caller' = "controls"
  /\ \E id \in CampaignIds \cup {3} :
       /\ ccId' = id
       /\ campaigns' = setStatus(campaigns, id, "stopped")
       /\ IF id \in DOMAIN campaigns
          THEN /\ ccpc' = "await"
               /\ StartWebhook(NoPayload)
          ELSE /\ ccpc' = "done"
               /\ UNCHANGED wvars
  /\ ccAction' = "stop"
  /\ UNCHANGED <<ccToast, ccUpdate>>
  /\ UNCHANGED <<mvars, envvars, dbvars, gvars, avars, acvars>>

\* Lines 261-277: the local status first, then the pause_campaign dispatch.
CCHandlePause ==
  /\ caller = "none"
  /\ caller' = "controls"
  /\ \E id \in CampaignIds \cup {3} :
       /\ ccId' = id
       /\ campaigns' = setStatus(campaigns, id, "paused")
       /\ IF id \in DOMAIN campaigns
          THEN /\ ccpc' = "await"
               /\ StartWebhook(NoPayload)
          ELSE /\ ccpc' = "done"
               /\ UNCHANGED wvars
  /\ ccAction' = "pause"
  /\ UNCHANGED <<ccToast, ccUpdate>>
  /\ UNCHANGED <<mvars, envvars, dbvars, gvars, avars, acvars>>

\* Lines 279-291 and 314-326: the toast shown after the awaited dispatch.  What
\* the dispatch returned is not looked at; only a thrown error reaches the
\* catch block with the "destructive" toast.
toastAfter(res) == IF res = "threw" THEN "destructive" ELSE "default"

\* Lines 279-291 and 314-326: the toast after the dispatch.
CCAfter ==
  /\ ccpc = "await"
  /\ wpc = "returned"
  /\ ccpc' = "done"
  /\ ccToast' = toastAfter(result)
  /\ UNCHANGED <<campaigns, ccId, ccAction, ccUpdate>>
  /\ UNCHANGED <<mvars, envvars, dbvars, gvars, avars, caller, wvars, acvars>>

(***************************************************************************)
(* CampaignControls.handleStartCampaign                                    *)
(***************************************************************************)

\* campaignService.updateCampaign (part_003 lines 270-315): every outcome but
\* the updated row is thrown to the caller.
updateCampaignThrows(u) == u # "ok"

\* Lines 186-195: the id put into the payload: the profile's, the selected
\* assistant's, or the empty string.
startAssistantId(a) ==
  IF a \in {"profile", "profileSelectThrows"} THEN "v1"
  ELSE IF a = "selected" THEN "v2" ELSE NoId

\* Lines 171-184: the local status first, then the persisted update.
CCHandleStart ==
  /\ caller = "none"
  /\ caller' = "controls"
  /\ \E id \in CampaignIds \cup {3} :
       /\ ccId' = id
       /\ campaigns' = setStatus(campaigns, id, "active")
       /\ ccpc' = IF id \in DOMAIN campaigns THEN "update" ELSE "done"
  /\ ccAction' = "start"
  /\ UNCHANGED <<ccToast, ccUpdate>>
  /\ UNCHANGED <<mvars, envvars, dbvars, gvars, avars, wvars, acvars>>

\* Lines 180-207 and 222-230: updateCampaign settled.  A failure reaches the
\* catch block, which shows a toast and leaves the list as it is; a success
\* is followed by the choice of the assistant and the start_campaign
\* dispatch.  The dispatch carries an id whenever selectAssistant is called,
\* so what that call does to the slot is not read by the dispatch.
CCStartUpdated ==
  /\ ccpc = "update"
  /\ \E u \in UpdateOutcomes, a \in StartAssistants :
       /\ ccUpdate' = u
       /\ IF updateCampaignThrows(u) \/ a = "profileSelectThrows"
          THEN /\ ccpc' = "done"
               /\ ccToast' = "destructive"
               /\ UNCHANGED wvars
          ELSE /\ ccpc' = "awaitStart"
               /\ StartWebhook([vapi |-> startAssistantId(a), supa |-> NoId,
                                name |-> NoName])
               /\ UNCHANGED ccToast
  /\ UNCHANGED <<campaigns, ccId, ccAction>>
  /\ UNCHANGED <<mvars, envvars, dbvars, gvars, avars, caller, acvars>>

\* Lines 209-230: after the dispatch, prepareBulkCallsForCampaign is awaited;
\* its answer, or an exception, decides the toast.
CCStartAfter ==
  /\ ccpc = "awaitStart"
  /\ wpc = "returned"
  /\ ccpc' = "done"
  /\ \E bulk \in {"success", "partial", "throws"} :
       ccToast' = IF result = "threw" \/ bulk # "success" THEN "destructive"
                  ELSE "default"
  /\ UNCHANGED <<campaigns, ccId, ccAction, ccUpdate>>
  /\ UNCHANGED <<mvars, envvars, dbvars, gvars, avars, caller, wvars, acvars>>

Init ==
  /\ IdleMerge
  /\ IdleCatalog
  /\ IdleAssistants
  /\ catalog \in Catalogs
  /\ cached \in CachedValues
  /\ campaigns = InitialCampaigns
  /\ IdleWebhook
  /\ IdleCallers

Next ==
  \/ DirectCall
  \/ WName
  \/ WEnsure
  \/ WDb
  \/ WCached
  \/ WList
  \/ WFinalize
  \/ WPostOutcome
  \/ ACHandleStop
  \/ ACName
  \/ ACExisting
  \/ ACList
  \/ ACDispatch
  \/ ACAfter
  \/ CCHandleStop
  \/ CCHandlePause
  \/ CCAfter
  \/ CCHandleStart
  \/ CCStartUpdated
  \/ CCStartAfter

Spec == Init /\ [][Next]_vars

(***************************************************************************)
(* Properties of the reconciler (checked under SpecMerge)                  *)
(***************************************************************************)

idsOf(L) == {L[i].assistant_id : i \in DOMAIN L} \ {NoId}

normalStatus(st) == IF st \in {"ready", "pending", "failed"} THEN st ELSE "ready"

\* C1: combineAssistants(L, R) returns |L| + |{r in R : r.id not in ids(L)}|
\* records, and no two records of the output share a non-empty assistant_id.
MergeCountAndNoDuplicates ==
  mpc = "done" =>
    /\ Len(mOut) = Len(mLocal0)
         + Cardinality({k \in DOMAIN mRemote : mRemote[k].id \notin idsOf(mLocal0)})
    /\ \A i, j \in DOMAIN mOut :
         (mOut[i].assistant_id # NoId /\ mOut[i].assistant_id = mOut[j].assistant_id)
           => i = j

\* A merge in which one remote record matched a local one and another did not.
MergeCountWitness ==
  /\ mpc = "done"
  /\ Len(mLocal0) = 2
  /\ Len(mRemote) = 2
  /\ Len(mOut) = 3

\* C2: a local record that shares its assistant_id with a remote record comes
\* out with the remote record's normalized status and with every other field
\* as the local record had it.
MergedKeepsLocalFields ==
  mpc = "done" =>
    \A i \in DOMAIN mLocal0, k \in DOMAIN mRemote :
      mLocal0[i].assistant_id = mRemote[k].id =>
        /\ mOut[i].status = normalStatus(mRemote[k].status)
        /\ mOut[i].id = mLocal0[i].id
        /\ mOut[i].name = mLocal0[i].name
        /\ mOut[i].assistant_id = mLocal0[i].assistant_id
        /\ mOut[i].user_id = mLocal0[i].user_id

\* A pending local record matched by a remote record with a foreign status.
MergedStatusWitness ==
  /\ mpc = "done"
  /\ \E i \in DOMAIN mLocal0, k \in DOMAIN mRemote :
       /\ mLocal0[i].assistant_id = mRemote[k].id
       /\ mLocal0[i].status = "pending"
       /\ mRemote[k].status = "weird"
       /\ mOut[i].status = "ready"

(***************************************************************************)
(* Properties of the resolution cascade and of the dispatch (under Spec)   *)
(***************************************************************************)

Resolved == wpc \in {"posting", "returned"}

\* C3: whatever the hints, the cached selection and the outcome of each
\* lookup, the payload is posted with a non-empty vapi_assistant_id; the
\* return for a missing id is never taken.
AlwaysPostsAnId ==
  /\ ~noIdReturn
  /\ Resolved => (posts = 1 /\ posted.vapi # NoId)

\* Every lookup of a full cascade failed and the fallback id was posted.
AllLookupsFailedWitness ==
  /\ wpc = "returned"
  /\ posted.vapi = FALLBACK_VAPI_ASSISTANT_ID
  /\ \E i, j, k \in DOMAIN trace :
       /\ trace[i].err = "name"
       /\ trace[j].err = "parse"
       /\ trace[k].err = "list"

Rank(s) ==
  CASE s = "supplied" -> 1
    [] s = "name" -> 2
    [] s = "ensure" -> 3
    [] s = "db" -> 4
    [] s = "cached" -> 5
    [] s = "list" -> 6
    [] s = "fallback" -> 7

\* The strategies of t were attempted in cascade order, each one only after
\* every earlier one produced no id.
Ordered(t) ==
  \A i, j \in DOMAIN t :
    i < j => (Rank(t[i].s) < Rank(t[j].s) /\ t[i].id = NoId)

\* C4: resolution is a strictly ordered cascade (supplied id, name, local id,
\* cached selection, provider list, fallback): a strategy is attempted only if
\* every earlier one produced no id, in triggerCallWebhook and in the
\* pre-resolution of ActiveCampaign.handleStopCampaign alike.
CascadeStrictlyOrdered ==
  /\ Ordered(trace)
  /\ Ordered(acTrace)
  /\ \A i \in DOMAIN acTrace :
       (campaign.vapiAssistantId # NoId /\ acpc # "idle") => acTrace[i].s = "supplied"

\* The cascade of triggerCallWebhook alone.
WebhookCascadeOrdered == Ordered(trace)

\* C5: with a non-empty vapi_assistant_id among the hints, that id is the one
\* posted and no catalog, store or slot lookup is made on the way.
SuppliedIdShortCircuits ==
  hints.vapi # NoId =>
    /\ calls = {}
    /\ Resolved => posted.vapi = hints.vapi

\* An id was supplied together with every other hint, a cached selection and
\* a non-empty catalog.
SuppliedIdWitness ==
  /\ wpc = "returned"
  /\ hints.vapi = "v1"
  /\ hints.name # NoName
  /\ hints.supa # NoId
  /\ cached.kind = "rec"
  /\ Len(catalog) > 0
  /\ posted.vapi = "v1"

\* C6: without hints, with an empty catalog and no cached selection the
\* fallback id is posted; and the fallback id is posted only when no id was
\* supplied and every strategy before the fallback produced none.
FallbackOnlyWhenExhausted ==
  Resolved =>
    /\ (hints = NoPayload /\ catalog = <<>> /\ cached.kind = "none")
         => posted.vapi = FALLBACK_VAPI_ASSISTANT_ID
    /\ posted.vapi = FALLBACK_VAPI_ASSISTANT_ID =>
         /\ hints.vapi = NoId
         /\ \A i \in DOMAIN trace : trace[i].s # "fallback" => trace[i].id = NoId

\* No hints, empty catalog, empty slot: the fallback id is posted.
FallbackWitness ==
  /\ wpc = "returned"
  /\ hints = NoPayload
  /\ catalog = <<>>
  /\ cached.kind = "none"
  /\ posted.vapi = FALLBACK_VAPI_ASSISTANT_ID

\* C7 as stated: an error inside any strategy means that the strategy found
\* nothing, that the next strategy is attempted and that the POST is sent.
ErrorMeansNothingFound ==
  Resolved =>
    /\ posts = 1
    /\ \A i \in DOMAIN trace :
         trace[i].err # "" => (trace[i].id = NoId /\ i < Len(trace))

\* The id the cached-selection strategy holds before it asks for confirmation,
\* when the slot itself carries one.
slotId == IF cached.assistant_id # NoId THEN cached.assistant_id ELSE cached.id

\* C7 (amended): an error inside a strategy never aborts the dispatch, the
\* POST is sent; the failed strategy contributes no id and a later strategy is
\* attempted, except for an error while confirming the id of the cached
\* selection: that id is kept unconfirmed, it is the one posted, and no later
\* strategy runs.
ErrorNeverAbortsDispatch ==
  Resolved =>
    /\ posts = 1
    /\ \A i \in DOMAIN trace :
         trace[i].err # "" =>
           IF trace[i].err = "confirm"
           THEN /\ trace[i].s = "cached"
                /\ trace[i].id # NoId
                /\ slotId # NoId => trace[i].id = slotId
                /\ i = Len(trace)
                /\ posted.vapi = trace[i].id
           ELSE /\ trace[i].id = NoId
                /\ i < Len(trace)

\* The lookups by name, by local id and in the local store all failed, and
\* the dispatch was still posted.
ErrorsThenPostWitness ==
  /\ wpc = "returned"
  /\ posts = 1
  /\ \E i, j, k \in DOMAIN trace :
       /\ trace[i].err = "name"
       /\ trace[j].err = "ensure"
       /\ trace[k].err = "db"

\* C8: triggerCallWebhook returns {success: true} exactly when the POST was
\* answered with a 2xx status; every other outcome gives {success: false};
\* nothing is thrown to the caller.
SuccessIffAccepted ==
  wpc = "returned" =>
    /\ result \in {"true", "false"}
    /\ result = "true" <=> postOutcome = "2xx"

\* The POST ran into the timeout and the caller got {success: false}.
TimeoutFalseWitness ==
  /\ wpc = "returned"
  /\ postOutcome = "timeout"
  /\ result = "false"

\* C9: one invocation of triggerCallWebhook sends at most one POST to the
\* workflow endpoint, whatever the answer.
AtMostOnePost == posts <= 1

\* A POST failed and was not sent again.
FailedPostWitness ==
  /\ wpc = "returned"
  /\ postOutcome \in {"non2xx", "neterr"}
  /\ posts = 1

\* C10: whatever the outcome of the resolution and of the stop_campaign
\* dispatch, ActiveCampaign.handleStopCampaign has invoked onCampaignStopped
\* when it ends (campaign id present), and CampaignControls.handleStopCampaign
\* leaves the campaign's local status 'stopped'.
StopAlwaysAdvancesLocalState ==
  /\ (acpc = "done" /\ campaign.id # 0 /\ onCampaignStopped # "absent")
       => stoppedCalls >= 1
  /\ (ccAction = "stop" /\ ccpc \in {"await", "done"} /\ ccId \in DOMAIN campaigns)
       => campaigns[ccId] = "stopped"

\* Both stop flows after a dispatch that was not accepted.
StopAfterFailureWitness ==
  \/ /\ acpc = "done"
     /\ campaign.id # 0
     /\ postOutcome = "timeout"
     /\ result = "false"
     /\ stoppedCalls = 1
  \/ /\ ccpc = "done"
     /\ ccAction = "stop"
     /\ postOutcome = "neterr"
     /\ campaigns[ccId] = "stopped"

\* C17: combineAssistants is idempotent: a second call with the same local
\* and remote arrays, the local records as the first call left them, returns
\* the same records in the same order; nothing accumulates.
CombineIdempotent ==
  mpc = "again" =>
    /\ mOut2 = mOut
    /\ mLocal = SubSeq(mOut, 1, Len(mLocal0))

\* The first call appended a remote record and rewrote a local status, and a
\* second call was made.
CombineAgainWitness ==
  /\ mpc = "again"
  /\ Len(mOut) > Len(mLocal0)
  /\ \E i \in DOMAIN mLocal0 : mLocal0[i].status # mLocal[i].status

(***************************************************************************)
(* Properties of the catalog operations (checked under SpecCatalog)        *)
(***************************************************************************)

\* C16: getAssistantsFromVapiApi returns the empty list and
\* getVapiAssistantById returns null on every transport error, timeout or
\* non-2xx answer, and neither ever throws to its caller.
AdaptersFailOpen ==
  (gpc = "done" /\ gOp \in {"list", "byId"}) =>
    /\ ~gRaised
    /\ gOutcome \in {"non2xx", "timeout", "neterr"} =>
         IF gOp = "list" THEN gOut = <<>> ELSE gRec = NullRecord

\* A non-2xx answer to getVapiAssistantById for a record the provider holds.
AdapterFailureWitness ==
  /\ gpc = "done"
  /\ gOp = "byId"
  /\ gOutcome = "non2xx"
  /\ Len(provider) > 0
  /\ gRec = NullRecord

\* C18: every record getAllAssistants returns - local only, merged or remote
\* only - has a status among ready, pending and failed.
AllStatusesNormalized ==
  (gpc = "done" /\ gOp = "all") =>
    \A i \in DOMAIN gOut : gOut[i].status \in ValidStatuses

\* The part of C18 that holds: the records that come from the provider, merged
\* or remote only, have a normalized status whenever the provider answered.
ProviderStatusesNormalized ==
  (gpc = "done" /\ gOp = "all" /\ gOutcome = "2xx") =>
    \A i \in DOMAIN gOut :
      (\E k \in DOMAIN provider :
          provider[k].owner = "u1" /\ provider[k].id = gOut[i].assistant_id)
        => gOut[i].status \in ValidStatuses

(***************************************************************************)
(* Properties of the pause flow, the diagnostics and the cached strategy   *)
(* (checked under Spec)                                                    *)
(***************************************************************************)

\* C11: a pause_campaign dispatch that failed never blocks or reverts the
\* local transition to 'paused', and handlePauseCampaign then reports the
\* failure with its warning toast, not with the toast of a successful pause.
PauseFailureReportedAsWarning ==
  (ccAction = "pause" /\ ccId \in DOMAIN campaigns) =>
    /\ ccpc \in {"await", "done"} => campaigns[ccId] = "paused"
    /\ (ccpc = "done" /\ result # "true") => ccToast = "destructive"

\* The part of C11 the handler does keep: the status stays 'paused'.
PauseKeepsLocalStatus ==
  (ccAction = "pause" /\ ccpc \in {"await", "done"} /\ ccId \in DOMAIN campaigns)
    => campaigns[ccId] = "paused"

LastStrategy == trace[Len(trace)].s

\* C19: when the resolution ends in the fallback id, the troubleshooting
\* fields posted in additional_data differ from the ones posted after a
\* resolution by any other strategy: the fallback is marked as degraded.
FallbackMarkedDegraded ==
  (Resolved /\ LastStrategy = "fallback") => postedDiag # diagnostics(FALSE)

\* What the name lookup of the cached strategy found.
cachedNameMatch == IF cachedByName \in CatalogIds THEN cachedByName ELSE NoId

\* C20 as stated: the cached strategy resolves to the cached record's
\* assistant_id when it has one, and to the result of the name match on the
\* cached name when it has no assistant_id but a name.
CachedNameWheneverNoRemoteId ==
  \A i \in DOMAIN trace :
    (trace[i].s = "cached" /\ cached.kind = "rec") =>
      /\ cached.assistant_id # NoId => trace[i].id = cached.assistant_id
      /\ (cached.assistant_id = NoId /\ cached.name # NoName) =>
           (cachedByName # "none" /\ trace[i].id = cachedNameMatch)

\* C20 (amended): the cached strategy resolves to the cached record's
\* assistant_id when it has one; to the result of the name match on the cached
\* name when the record has neither assistant_id nor id but a name; and, when
\* the record has an id but no assistant_id, to that id or to what
\* ensureVapiAssistantId confirms for it, the name match not being consulted.
CachedStrategyResolves ==
  \A i \in DOMAIN trace :
    (trace[i].s = "cached" /\ cached.kind = "rec") =>
      /\ cached.assistant_id # NoId => trace[i].id = cached.assistant_id
      /\ (cached.assistant_id = NoId /\ cached.id = NoId /\ cached.name # NoName) =>
           (cachedByName # "none" /\ trace[i].id = cachedNameMatch)
      /\ (cached.assistant_id = NoId /\ cached.id # NoId) =>
           /\ cachedByName = "none"
           /\ trace[i].id \in EnsureOutcomes(cached.id) \ {Null, Throw}

\* The cached strategy ran on a record with an assistant_id, on a record with
\* only a name whose lookup found an id, and the posted id came from it.
CachedStrategyWitness ==
  /\ Resolved
  /\ LastStrategy = "cached"
  /\ cached.kind = "rec"
  /\ \/ cached.assistant_id # NoId /\ posted.vapi = cached.assistant_id
     \/ cached.assistant_id = NoId /\ cached.id = NoId /\ cachedByName \in CatalogIds
          /\ posted.vapi = cachedByName

FailedOutcomes == {"non2xx", "rejected"}

\* C12: deleteAssistant attempts the provider's DELETE before the local
\* delete; whatever the provider answered (error status, timeout, network
\* error) the local delete is still issued; and deleteAssistant returns true
\* exactly when the local delete succeeded.
DeleteRemoteThenLocal ==
  /\ dEvents \in {<<>>, <<"remote">>, <<"remote", "local">>}
  /\ dRemoteOutcome # "none" => dEvents = <<"remote", "local">>
  /\ dLocalOutcome # "none" => dEvents = <<"remote", "local">>
  /\ dReturn = "true" <=> dLocalOutcome = "ok"
  /\ (dpc \in {"refetch", "after", "done"}) => dReturn \in {"true", "false"}

\* A deletion whose provider request failed and whose local delete succeeded.
DeleteAfterRemoteFailureWitness ==
  /\ dRemoteOutcome \in FailedOutcomes
  /\ dLocalOutcome = "ok"
  /\ dReturn = "true"
  /\ rowsWithId(store, assistantToDelete.id) = {}

\* The slot holds the record a.
slotHolds(a) == cached.kind = "rec" /\ cached.id = a.id

\* C13: when the record the slot held is deleted successfully, the slot is
\* cleared: once deleteAssistant and then handleDeleteAssistant have
\* completed, the slot does not hold the deleted record.
DeletedSelectionCleared ==
  (/\ dpc = "done"
   /\ dReturn = "true"
   /\ dSlot0.kind = "rec"
   /\ dSlot0.id = assistantToDelete.id) => ~slotHolds(assistantToDelete)

\* The record in the slot was deleted, the flow completed, and the slot was
\* rewritten to another record or left empty.
DeletedSelectionWitness ==
  /\ dpc = "done"
  /\ dReturn = "true"
  /\ dSlot0.kind = "rec"
  /\ dSlot0.id = assistantToDelete.id
  /\ dSlot0.id # NoId
  /\ ~slotHolds(assistantToDelete)

\* C14: after a successful creation or a selection the slot holds exactly the
\* record just created or selected; in any sequence of them, the latest one.
SlotHoldsLatestSelection ==
  lastAction.kind \in {"select", "create"} => cached = lastAction.slot

\* A creation succeeded and a later selection replaced its record in the slot.
SelectAfterCreateWitness ==
  /\ lastAction.kind = "select"
  /\ crpc = "done"
  /\ newAssistant # NoRecord
  /\ cached = lastAction.slot
  /\ cached.id # newAssistant.id

\* C15: when the provider answers the creation with a non-success status or
\* the request times out, createAssistant rejects, no local record is
\* inserted, the creation leaves the slot as it was, and handleCreateAssistant
\* reports the failure and selects no new assistant.
FailedCreateLeavesNoTrace ==
  (crpc = "done" /\ crOutcome \in FailedOutcomes) =>
    /\ crRejected
    /\ crReported
    /\ newAssistant = NoRecord
    /\ ~crWrote
    /\ rowsWithId(store, NewIdOf(crSeq)) = {}
    /\ lastAction.kind # "create" \/ lastAction.slot.id # NewIdOf(crSeq)

\* A creation the provider refused, or one whose request was aborted, completed.
FailedCreateWitness ==
  /\ crpc = "done"
  /\ crOutcome \in FailedOutcomes
  /\ crRejected
  /\ crReported

(***************************************************************************)
(* Further properties of the reconciler (checked under SpecMerge)          *)
(***************************************************************************)

\* The provider's records that no local record names, in provider order.
remoteOnly(local, remote) ==
  SelectSeq(remote, LAMBDA r : r.id \notin idsOf(local))

\* C25: the output of combineAssistants lists the local records first, in
\* their original order, followed by the remote-only records in the order
\* the provider returned them.
LocalFirstThenRemoteOnly ==
  mpc = "done" =>
    LET n == Len(mLocal0)
        tail == remoteOnly(mLocal0, mRemote)
    IN /\ Len(mOut) = n + Len(tail)
       /\ \A i \in 1..n :
            /\ mOut[i].id = mLocal0[i].id
            /\ mOut[i].assistant_id = mLocal0[i].assistant_id
       /\ \A k \in 1..Len(tail) :
            mOut[n + k] = mapVapiAssistantToLocalFormat(tail[k])

\* Two local records, the second matched, and two remote records of which the
\* first is remote-only: the order of both parts can be told.
LocalFirstWitness ==
  /\ mpc = "done"
  /\ Len(mLocal0) = 2
  /\ Len(mRemote) = 2
  /\ mRemote[1].id \notin idsOf(mLocal0)
  /\ mRemote[2].id = mLocal0[2].assistant_id
  /\ mOut[3].id = mRemote[1].id

(***************************************************************************)
(* Further properties of the catalog calls (checked under SpecCatalog)     *)
(***************************************************************************)

\* The rows the table held before the call: cacheAssistants only adds rows
\* with a CacheIdOf key.
rowsBeforeCall == SelectSeq(store, LAMBDA r : r.id \in {LocalIdOf(i) : i \in 1..4})

\* The provider record came out of getAllAssistants as a remote record.
appearsAsRemote(r) == \E i \in DOMAIN gOut : gOut[i].id = r.id

\* C22: getAllAssistants(userId) filters the remote records by owner before
\* merging: a remote record (one no local row names) is in the merged catalog
\* if and only if its owner tag equals userId or it carries no owner tag; a
\* remote record tagged with another owner never appears.
RemoteCandidatesByOwner ==
  (gpc = "done" /\ gOp = "all" /\ gOutcome = "2xx") =>
    \A k \in DOMAIN provider :
      provider[k].id \notin idsOf(rowsBeforeCall) =>
        (appearsAsRemote(provider[k]) <=> provider[k].owner \in {"u1", NoOwner})

\* The part of C22 the code keeps: a remote record is merged exactly when it
\* is tagged with the caller's id, so another owner's record never appears.
RemoteCandidatesOwnOnly ==
  (gpc = "done" /\ gOp = "all" /\ gOutcome = "2xx") =>
    \A k \in DOMAIN provider :
      provider[k].id \notin idsOf(rowsBeforeCall) =>
        (appearsAsRemote(provider[k]) <=> provider[k].owner = "u1")

(***************************************************************************)
(* Further properties of the assistant flows (checked under SpecAssistants) *)
(***************************************************************************)

\* The row createAssistant stored and returned carries the placeholder.
placeholderStored ==
  /\ newAssistant.assistant_id = UuidOf(crSeq)
  /\ crInsert = "ok" => newAssistant.status = "pending"
  /\ (crInsert = "ok" /\ crpc = "refetch") =>
       \E i \in DOMAIN store :
         store[i].id = newAssistant.id /\ store[i].assistant_id = UuidOf(crSeq)

FailedDeleteTouchesNothing ==
  /\ dReturn = "false" => ~dWrote
  /\ dLookup = "failed" =>
       /\ dEvents = <<>>
       /\ dRemoteOutcome = "none"
       /\ dLocalOutcome = "none"
       /\ dReturn = "false"

\* A deletion of the record in the slot that failed at the lookup, and one
\* that failed at the local delete after the provider had answered.
FailedDeleteWitness ==
  /\ dpc = "done"
  /\ dReturn = "false"
  /\ dSlot0.kind = "rec"
  /\ dSlot0.id = assistantToDelete.id
  /\ cached = dSlot0
  /\ \/ dLookup = "failed"
     \/ dLookup = "ok" /\ dLocalOutcome = "failed" /\ dEvents = <<"remote", "local">>

\* The deletion flow is over, and the slot was last written by it or by a
\* selection made while it was in flight.
selectedDuringDelete ==
  /\ dpc = "done"
  /\ dMeanwhile.kind = "rec"
  /\ dMeanwhile.id # assistantToDelete.id
  /\ lastAction.kind \in {"select", "delete"}

\* C27: when the user selects Y while the deletion of the selected record X
\* is in flight, the slot holds Y once the delete flow has completed, not a
\* record chosen by the delete flow.
SelectionDuringDeleteWins ==
  (/\ selectedDuringDelete
   /\ dSlot0.kind = "rec"
   /\ dSlot0.id = assistantToDelete.id) => cached = dMeanwhile

\* What the code keeps: a selection made during the deletion of a record that
\* was not the selected one, or during a deletion that failed, stays.
SelectionDuringOtherDeleteWins ==
  (/\ selectedDuringDelete
   /\ \/ dSlot0.kind # "rec"
      \/ dSlot0.id # assistantToDelete.id
      \/ dReturn = "false") => cached = dMeanwhile

\* C24: every write to the slot originates from a user-driven selection,
\* creation or deletion: a step that changes the slot is a step of
\* handleSelectAssistant, of the creation flow or of the deletion flow, and
\* no other code path (such as the loading of the list) writes it.
SlotWrittenOnlyByUserActions ==
  [][cached' # cached => (nActions' # nActions \/ crpc' # crpc \/ dpc' # dpc)]_vars

\* The step of "Estrategia 5" that runs the strategy (no id found before it).
listStep == wpc = "list" /\ wpc' = "final" /\ vapiAssistantId = NoId

\* The list the step obtained: empty when the request failed.
listObtained == IF trace'[Len(trace')].err = "list" THEN <<>> ELSE catalog

\* The records of a list whose name loosely matches the hint.
matching(list, hint) ==
  {i \in DOMAIN list : list[i].name # NoName /\ looseMatch(list[i].name, hint)}

\* The id the list strategy is said to yield.
listChoice(list, hint) ==
  IF list = <<>> THEN NoId
  ELSE IF hint # NoName /\ matching(list, hint) # {}
       THEN list[CHOOSE i \in matching(list, hint) :
                   \A j \in matching(list, hint) : i <= j].id
       ELSE list[1].id

\* C26: the remote-list strategy yields the id of the first record loosely
\* matching the name hint when a hint is given and some record matches,
\* otherwise the id of the first record of the list; an empty or failed list
\* yields no id.
ListStrategyPicksMatchOrFirst ==
  [][listStep => vapiAssistantId' = listChoice(listObtained, assistantNameToUse)]_vars

\* What the code keeps: the same, as long as no record without a name is met
\* before the match while a hint is given.
ListStrategyPicksMatchOrFirstNamed ==
  [][(/\ listStep
      /\ (assistantNameToUse = NoName
            \/ findByName(listObtained, assistantNameToUse) # -1))
       => vapiAssistantId' = listChoice(listObtained, assistantNameToUse)]_vars

\* The list step resolves a name hint against a catalog it obtained and in
\* which exactly one record loosely matches the hint.
uniqueMatchStep ==
  /\ listStep
  /\ assistantNameToUse # NoName
  /\ trace'[Len(trace')].err # "list"
  /\ Cardinality(matching(catalog, assistantNameToUse)) = 1

\* C21: resolving by name against a remote catalog that contains exactly one
\* record whose name matches the hint (case-insensitive substring match in
\* either direction) yields that record's remote id, whatever other records
\* the catalog contains and whatever their order.
UniqueMatchResolved ==
  [][uniqueMatchStep =>
       \A i \in matching(catalog, assistantNameToUse) :
          vapiAssistantId' = catalog[i].id]_vars

\* What the code keeps: the single match is found when every record that
\* precedes it carries a name.
UniqueMatchResolvedNamed ==
  [][(uniqueMatchStep /\ findByName(catalog, assistantNameToUse) # -1) =>
       \A i \in matching(catalog, assistantNameToUse) :
          vapiAssistantId' = catalog[i].id]_vars

\* ActiveCampaign.handleStopCampaign was invoked without a campaign id.
stopWithoutId == caller = "active" /\ campaign.id = 0

\* C29: ActiveCampaign.handleStopCampaign invokes onCampaignStopped at most
\* once per invocation, whatever the dispatch returns and whatever the
\* callback and the query invalidation after it do (an exception included);
\* without a campaign id it sends no dispatch and does not invoke the callback.
StoppedCallbackAtMostOnce ==
  /\ caller = "active" => stoppedCalls <= 1
  /\ stopWithoutId => (stoppedCalls = 0 /\ wpc = "idle" /\ posts = 0)

\* What the code keeps: nothing is dispatched or invoked without a campaign
\* id, and the callback runs a second time only from the catch block, after
\* the callback or the invalidation threw inside the try block.
StoppedCallbackTwiceOnlyAfterThrow ==
  /\ stopWithoutId => (stoppedCalls = 0 /\ wpc = "idle" /\ posts = 0)
  /\ caller = "active" => stoppedCalls <= 2
  /\ (caller = "active" /\ (onCampaignStopped = "absent" \/ result = "threw"))
       => stoppedCalls <= 1

\* handleStartCampaign has ended for a campaign of the list that was not
\* running before.
startEnded ==
  /\ ccAction = "start"
  /\ ccpc = "done"
  /\ ccId \in DOMAIN campaigns
  /\ InitialCampaigns[ccId] # "active"

\* C30: after CampaignControls.handleStartCampaign completes, the campaign's
\* local status is 'active' only if the persisted status update succeeded;
\* when that update fails, no start_campaign dispatch is sent and the local
\* status is not left 'active'.
StartedOnlyIfPersisted ==
  startEnded =>
    /\ campaigns[ccId] = "active" => ccUpdate = "ok"
    /\ ccUpdate # "ok" => (posts = 0 /\ wpc = "idle")

\* What the code keeps: a failed update sends nothing.
FailedStartDispatchesNothing ==
  (startEnded /\ ccUpdate # "ok") => (posts = 0 /\ wpc = "idle")

=============================================================================
